---- MODULE Spec2Model ----
(***************************************************************************)
(* A model of the Entangle remote-desktop core (parevo/entagle):           *)
(*   - the Viewer's FrameAssembler (apps/desktop-client .. session.rs),    *)
(*   - the Host send worker's fragmentation (session.rs, run_host),        *)
(*   - the Session connect sequence, the signaling client pipes and the    *)
(*     signaling broker (session.rs, signaling.rs, signaling-server).      *)
(* Each part has its own specification over the shared variables.          *)
(***************************************************************************)
EXTENDS Integers, Sequences, FiniteSets, TLC

VARIABLES
    \* ---- FrameAssembler (session.rs:66-153) ----
    frames,      \* FrameAssembler.frames: frame_id -> FrameAssembly or None
    ret,         \* the value returned by the last push
    lastPkt,     \* the packet handed to the last push
    exp,         \* history: per frame, the fragments pushed so far in an undisturbed run
    seen,        \* history: frame ids that ever had a multi-fragment packet pushed
    yields,      \* history: per frame, how many assembled frames push has returned
    slot,        \* history: what the last push found at the slot of its fragment
    reset        \* history: the last push found an assembly of another size and reset it

asmVars == <<frames, ret, lastPkt, exp, seen, yields, slot, reset>>

VARIABLES
    \* ---- Host send worker (session.rs:566-676) ----
    sw,          \* the worker's position and the locals of the frame it is sending
    dgram,       \* the last datagram handed to send_datagram, with the outcome
    emitted,     \* history: datagrams of the current frame accepted by send_datagram
    covered      \* history: payload bytes of the current frame sent so far

sendVars == <<sw, dgram, emitted, covered>>

VARIABLES
    \* ---- the other worker loops of ActiveSession::run (session.rs:696-872) ----
    capture,     \* the Host's capture thread: its position in capture_loop
    encoded,     \* the encoded frame the capture thread holds: None or Some(frame)
    frame_ch,    \* the frame channel: the encoded frames queued, oldest first, and whether frame_tx lives
    receive,     \* the Viewer's receive loop: its position in run_viewer
    input        \* the Viewer's input loop: its position in input_loop

workVars == <<capture, encoded, frame_ch, receive, input>>

VARIABLES
    \* ---- Session (session.rs:156-481) ----
    state,       \* Session.state
    running,     \* Session.running
    pending,     \* Session.pending_connection: None or Some(from_peer_id)
    call,        \* the connect() call: its position, locals and result
    stop,        \* the application's disconnect() call (stop_session)
    runpc,       \* the ActiveSession::run call
    okd,         \* history: (from, approved) of the resolve_pending_connection calls that returned Ok
    rres,        \* the last resolve_pending_connection call: its arguments and its result
    \* ---- QuicTransport ----
    conn,        \* QuicTransport.connection is Some
    \* ---- SignalingClient: the pipes between a session and the server ----
    sig,         \* "none", "open" (the relay task runs) or "closed" (it has ended)
    up,          \* messages on their way to the server, oldest first
    down,        \* messages on their way to the session (signal_rx), oldest first
    sent,        \* history: every message the session put on up
    served,      \* history: how many messages a server outside the model has sent
    heard,       \* history: the messages connect() took from signal_rx in its wait loops
    \* ---- signaling server (signaling-server/src/main.rs) ----
    peers,                 \* AppState.peers: peer id -> None or Some(the socket whose tx is stored)
    pending_connections,   \* AppState.pending_connections: target -> queued requesters
    sock,                  \* handle_websocket, per socket: position, peer_id, target
    relayed                \* history: the Accept and IceCandidate messages the server handled

sessVars == <<state, running, pending, call, stop, runpc, okd, rres, conn>>
sigVars == <<sig, up, down, sent, served, heard>>
brokerVars == <<peers, pending_connections, sock, relayed>>

VARIABLES
    \* ---- CongestionController (net-transport/src/congestion.rs) ----
    cc,          \* the controller: config, current_params, rtt_samples, smoothed_rtt, rtt_variance, last_adjustment
    rtt_calls,   \* history: how many times record_rtt has been called
    last_call    \* history: the last call on the controller and what it did

ccVars == <<cc, rtt_calls, last_call>>

VARIABLES
    \* ---- CryptoSession (crypto-session/src/session.rs) ----
    crypto,        \* the CryptoSession of each side: cipher, send_counter, recv_counter, direction
    wire,          \* per side, the ciphertexts on their way to it, oldest first
    plain,         \* history: per side, the plaintexts it has encrypted, in order
    opened,        \* history: per side, the plaintexts its decrypt calls have returned, in order
    last_decrypt   \* history: the last decrypt call and its result

cryptoVars == <<crypto, wire, plain, opened, last_decrypt>>

VARIABLES
    \* ---- QuicTransport: the datagram receiver task and its channel ----
    receiver,      \* the task of spawn_datagram_receiver: its position and the datagram it holds
    datagram_ch,   \* the datagram channel: the datagrams queued, and whether datagram_rx lives
    reads,         \* history: how many datagrams read_datagram has returned
    taken          \* history: the datagrams recv_datagram has returned, in order

rxVars == <<receiver, datagram_ch, reads, taken>>

VARIABLES
    \* ---- Session::send_input and the input channel (session.rs) ----
    input_tx,        \* Session.input_tx: who holds the mutex, and whether it holds a Sender
    input_sequence,  \* Session.input_sequence
    input_ch,        \* the input channel: the packets queued, and whether input_rx lives
    send_input,      \* per calling thread: its position in send_input, its event, its sequence, its result
    enqueued         \* history: every packet tx.send has put in the channel, in order

inVars == <<input_tx, input_sequence, input_ch, send_input, enqueued>>

VARIABLES
    \* ---- the application's commands (commands.rs, state.rs) ----
    sessions,   \* AppState.sessions of each application: the remote peer ids it holds a session for
    cmd         \* per application: its start_session command's position, its result, and the registry before the call

appVars == <<sessions, cmd>>

VARIABLES
    \* ---- a FrameAssembler that is sent more frames at a time ----
    assembler,   \* FrameAssembler.frames over WideIds: frame id -> None or Some(assembly)
    evicted      \* history: the map before the last push and the map its evict_old left

evVars == <<assembler, evicted>>

netVars == <<ccVars, cryptoVars, rxVars, inVars, appVars, evVars>>

Sessions == {"H", "V", "W"}

\* Option<T>: None is the empty sequence, Some(x) the one-element sequence
None == <<>>
Some(x) == <<x>>
Get(o) == o[1]

\* ------------------------------------------------------------------------
\* Bounds of the model
\* ------------------------------------------------------------------------
MaxYields == 2        \* the count of yields of one frame saturates here

\* FrameAssembler::new(128, Duration::from_secs(2)) in run_viewer: the model
\* runs the same code with a small max_frames; max_age is 2 clock ticks.
max_frames == 1
max_age == 2

\* Instants are kept as ages (Instant::now() - instant): a tick of the clock
\* ages every stored instant by one; ages beyond max_age are all "too old".
Stale == max_age + 1
Older(age) == IF age < Stale THEN age + 1 ELSE Stale

FrameIds == {1, 2}

\* VideoPacketHeader: the fields push reads; the remaining fields (timestamp,
\* frame type, codec, size, dirty rect) are carried along unchanged.
\* Frame 1 arrives declared as 2 or 3 fragments, frame 2 as 2 fragments; an
\* index may lie outside the declared total; totals 0 and 1 are unfragmented.
Headers ==
    {[frame_id |-> 1, fragment_index |-> i, total_fragments |-> 2] : i \in 0..2}
    \cup {[frame_id |-> 1, fragment_index |-> i, total_fragments |-> 3] : i \in 0..3}
    \cup {[frame_id |-> 2, fragment_index |-> i, total_fragments |-> 2] : i \in 0..1}
    \cup {[frame_id |-> 1, fragment_index |-> 0, total_fragments |-> n] : n \in 0..1}

\* The bytes a fragment carries: they name the frame, the total_fragments the
\* fragment declares and its index, so that any mix-up shows in the result.
PayloadOf(header) ==
    <<header.frame_id, header.total_fragments, header.fragment_index>>

Packets == {[header |-> h, payload |-> PayloadOf(h)] : h \in Headers}

\* ------------------------------------------------------------------------
\* FrameAssembler
\* ------------------------------------------------------------------------
\* A fresh FrameAssembly for the packet's header: every slot empty
NewAssembly(packet) ==
    [header |-> packet.header,
     fragments |-> [i \in 1..packet.header.total_fragments |-> None],
     received |-> 0,
     last_update |-> 0]

Stored(fs) == {f \in DOMAIN fs : fs[f] /= None}

\* A wrong size cut: any `k` of the stored entries
AnySets(fs, k) == {R \in SUBSET Stored(fs) : Cardinality(R) = k}

\* The frames a size eviction may remove: `k` entries taken from the front of
\* the entries sorted by last_update; entries with equal last_update may come
\* in either order (the sort is stable over the map's iteration order).
OldestSets(fs, k) ==
    {R \in SUBSET Stored(fs) :
        /\ Cardinality(R) = k
        /\ \A r \in R : \A s \in Stored(fs) \ R :
               Get(fs[r]).last_update >= Get(fs[s]).last_update}

\* retain(|_, frame| frame.last_update >= cutoff), cutoff = now - max_age
RetainFresh(fs) ==
    [f \in DOMAIN fs |->
        IF fs[f] /= None /\ Get(fs[f]).last_update <= max_age
        THEN fs[f] ELSE None]

\* evict_old: the age cut, then the size cut. The set of possible results.
EvictOld(fs) ==
    LET kept == RetainFresh(fs)
        n == Cardinality(Stored(kept))
    IN  IF n > max_frames
        THEN {[f \in DOMAIN fs |-> IF f \in R THEN None ELSE kept[f]] :
                 R \in OldestSets(kept, n - max_frames)}
        ELSE {kept}

RECURSIVE ConcatArrival(_, _)
\* A wrong join: the payloads from the last slot down to slot i.
ConcatArrival(fragments, i) ==
    IF i > Len(fragments) THEN <<>>
    ELSE ConcatArrival(fragments, i + 1)
         \o (IF fragments[i] = None THEN <<>> ELSE Get(fragments[i]))

RECURSIVE ConcatFrom(_, _)
\* The payloads of fragments[i..] in index order; an empty slot adds nothing.
ConcatFrom(fragments, i) ==
    IF i > Len(fragments) THEN <<>>
    ELSE (IF fragments[i] = None THEN <<>> ELSE Get(fragments[i]))
         \o ConcatFrom(fragments, i + 1)

\* A wrong reset: the assembly takes the new header and size, and the
\* fragments stored so far stay in the slots that still exist
EntryResized(fs, packet) ==
    LET f == packet.header.frame_id
        total == packet.header.total_fragments
        e0 == IF fs[f] = None THEN NewAssembly(packet) ELSE Get(fs[f])
        moved == [i \in 1..total |-> IF i <= Len(e0.fragments) THEN e0.fragments[i] ELSE None]
    IN  IF Len(e0.fragments) /= total
        THEN [header |-> packet.header,
              fragments |-> moved,
              received |-> Cardinality({i \in 1..total : moved[i] /= None}),
              last_update |-> 0]
        ELSE e0

\* entry(frame_id).or_insert_with(..), then the reset when the sizes disagree
EntryFor(fs, packet) ==
    LET f == packet.header.frame_id
        total == packet.header.total_fragments
        e0 == IF fs[f] = None THEN NewAssembly(packet) ELSE Get(fs[f])
    IN  IF Len(e0.fragments) /= total THEN NewAssembly(packet) ELSE e0

\* A wrong store: the fragment is stored and counted whenever it is in range
StoreAlways(entry, packet) ==
    LET idx == packet.header.fragment_index
        total == packet.header.total_fragments
    IN  IF idx < total
        THEN [entry EXCEPT !.fragments[idx + 1] = Some(packet.payload),
                           !.received = @ + 1,
                           !.last_update = 0]
        ELSE entry

\* the store of one fragment into its slot, if in range and empty
StoreFragment(entry, packet) ==
    LET idx == packet.header.fragment_index
        total == packet.header.total_fragments
    IN  IF idx < total /\ entry.fragments[idx + 1] = None
        THEN [entry EXCEPT !.fragments[idx + 1] = Some(packet.payload),
                           !.received = @ + 1,
                           !.last_update = 0]
        ELSE entry

\* A wrong completion: the frame is returned and its assembly stays stored
CompleteKept(fs, entry, packet) ==
    [frames |-> [fs EXCEPT ![packet.header.frame_id] = Some(entry)],
     ret |-> IF entry.received = packet.header.total_fragments
             THEN Some([header |-> entry.header, payload |-> ConcatFrom(entry.fragments, 1)])
             ELSE None]

\* the completion test: the map after the push and the value push returns
Complete(fs, entry, packet) ==
    LET f == packet.header.frame_id
        total == packet.header.total_fragments
    IN  IF entry.received = total
        THEN [frames |-> [fs EXCEPT ![f] = None],
              ret |-> Some([header |-> entry.header,
                            payload |-> ConcatFrom(entry.fragments, 1)])]
        ELSE [frames |-> [fs EXCEPT ![f] = Some(entry)], ret |-> None]

\* push after evict_old, on the evicted map fs
PushStored(fs, packet) ==
    Complete(fs, StoreFragment(EntryFor(fs, packet), packet), packet)

\* History of an undisturbed run of one frame: its first pushes, all with the
\* same total_fragments, distinct in-range indices, each within max_age of the
\* previous one. "dirty" once any of that fails.
FreshRun == [st |-> "fresh", total |-> 0, parts |-> <<>>, first |-> 0, last |-> 0]
DirtyRun == [st |-> "dirty", total |-> 0, parts |-> <<>>, first |-> 0, last |-> 0]
ExpAfter(e, packet) ==
    LET idx == packet.header.fragment_index
        total == packet.header.total_fragments
    IN  IF e.st = "dirty" THEN DirtyRun
        ELSE IF e.st = "fresh"
        THEN IF idx < total
             THEN [st |-> "run",
                   total |-> total,
                   parts |-> [i \in 1..total |->
                                 IF i = idx + 1 THEN Some(packet.payload) ELSE None],
                   first |-> idx,
                   last |-> 0]
             ELSE DirtyRun
        ELSE IF /\ total = e.total
                /\ idx < total
                /\ e.parts[idx + 1] = None
                /\ e.last <= max_age
             THEN [e EXCEPT !.parts[idx + 1] = Some(packet.payload),
                            !.last = 0]
             ELSE DirtyRun

\* what `idx < total && entry.fragments[idx].is_none()` finds
SlotFound(entry, packet) ==
    LET idx == packet.header.fragment_index
        total == packet.header.total_fragments
    IN  IF idx >= total THEN "outside"
        ELSE IF entry.fragments[idx + 1] = None THEN "empty"
        ELSE "filled"

\* push(packet) with total_fragments <= 1: the packet is returned as it is
PushSingle(packet) ==
    /\ packet.header.total_fragments <= 1
    /\ ret' = Some(packet)
    /\ lastPkt' = Some(packet)
    /\ slot' = "single"
    /\ reset' = FALSE
    /\ UNCHANGED <<frames, exp, seen, yields>>

\* push(packet) of a fragment of a multi-fragment frame
PushFragment(packet) ==
    /\ packet.header.total_fragments > 1
    /\ \E fs \in EvictOld(frames) :
          LET r == PushStored(fs, packet)
              f == packet.header.frame_id
          IN  /\ frames' = r.frames
              /\ ret' = r.ret
              /\ yields' = [yields EXCEPT ![f] =
                               IF r.ret /= None /\ @ < MaxYields THEN @ + 1 ELSE @]
              /\ slot' = SlotFound(EntryFor(fs, packet), packet)
              /\ reset' = (fs[f] /= None /\ Len(Get(fs[f]).fragments) /= packet.header.total_fragments)
    /\ lastPkt' = Some(packet)
    /\ exp' = [exp EXCEPT ![packet.header.frame_id] = ExpAfter(@, packet)]
    /\ seen' = seen \cup {packet.header.frame_id}

\* the clock advances by one tick between two datagrams
Tick ==
    /\ frames' = [f \in FrameIds |->
                    IF frames[f] = None THEN None
                    ELSE Some([Get(frames[f]) EXCEPT !.last_update = Older(@)])]
    /\ exp' = [f \in FrameIds |->
                    IF exp[f].st = "run" THEN [exp[f] EXCEPT !.last = Older(@)]
                    ELSE exp[f]]
    /\ UNCHANGED <<ret, lastPkt, seen, yields, slot, reset>>

AsmNext ==
    \/ \E p \in Packets : PushSingle(p)
    \/ \E p \in Packets : PushFragment(p)
    \/ Tick

\* ------------------------------------------------------------------------
\* The FrameAssembler when fragments of more frames than max_frames + 1 are
\* in flight
\* ------------------------------------------------------------------------
WideIds == 1..4

\* fragments of two-fragment frames
WidePackets ==
    {[header |-> h, payload |-> PayloadOf(h)] :
        h \in {[frame_id |-> f, fragment_index |-> i, total_fragments |-> 2] :
                  f \in WideIds, i \in 0..1}}

\* push(packet) of a fragment: evict_old, then the entry, the store and the
\* completion test
WidePush(packet) ==
    /\ packet.header.total_fragments > 1
    /\ \E fs \in EvictOld(assembler) :
          /\ assembler' = PushStored(fs, packet).frames
          /\ evicted' = [before |-> assembler, after |-> fs]

\* the clock advances by one tick between two datagrams
WideTick ==
    /\ assembler' = [f \in WideIds |->
                       IF assembler[f] = None THEN None
                       ELSE Some([Get(assembler[f]) EXCEPT !.last_update = Older(@)])]
    /\ UNCHANGED evicted

WideNext ==
    \/ \E p \in WidePackets : WidePush(p)
    \/ WideTick

\* ------------------------------------------------------------------------
\* Host send worker: fragmentation of one encoded frame into datagrams
\* ------------------------------------------------------------------------
MAX_DATAGRAM_SIZE == 1200
U16 == 65536

\* bincode's fixed-width encoding of a VideoPacketHeader: frame_id 8,
\* fragment_index 2, total_fragments 2, timestamp_us 8, frame_type 4, codec 4,
\* width 4, height 4, then the Option tag of dirty_rect and its four u32
HeaderBytes(dirty_rect) == 8 + 2 + 2 + 8 + 4 + 4 + 4 + 4 + 1 + (IF dirty_rect THEN 16 ELSE 0)

\* bincode::serialized_size / to_bytes().len() of a VideoPacket: the header,
\* the u64 length of the payload, the payload
SerializedSize(dirty_rect, payload_len) == HeaderBytes(dirty_rect) + 8 + payload_len

\* A wrong payload room: the whole datagram, the header not subtracted
MaxPayloadWhole(header_size) == MAX_DATAGRAM_SIZE

\* MAX_DATAGRAM_SIZE.saturating_sub(header_size)
MaxPayload(header_size) ==
    IF header_size >= MAX_DATAGRAM_SIZE THEN 0 ELSE MAX_DATAGRAM_SIZE - header_size

\* ((frame_len + max_payload - 1) / max_payload) as u16
TotalFragments(frame_len, max_payload) ==
    ((frame_len + max_payload - 1) \div max_payload) % U16

\* the frames the encoder hands over: sequence number and length of the
\* bitstream (never empty: the encoder reports an empty bitstream as an error)
BigFrame == U16 * MaxPayload(SerializedSize(FALSE, 0))
EncodedFrames ==
    [sequence : {1, 2},
     len : {1, MaxPayload(SerializedSize(FALSE, 0)) - 1,
            MaxPayload(SerializedSize(FALSE, 0)),
            MaxPayload(SerializedSize(FALSE, 0)) + 1, 3500}]
    \cup {[sequence |-> 3, len |-> BigFrame]}

SwIdle(pc) ==
    [pc |-> pc, frame_id |-> 0, frame_len |-> 0, max_payload |-> 0,
     total_fragments |-> 0, index |-> 0, sent_all |-> TRUE]

\* the top of the loop: if !running { break }
HostLoopTop(s) ==
    /\ sw.pc = "top"
    /\ sw' = SwIdle(IF running[s] THEN "select" ELSE "exited")
    /\ UNCHANGED <<dgram, emitted, covered>>

\* Some(frame) = frame_rx.recv(): the header, header_size, max_payload and
\* total_fragments of the frame
HostRecvFrame(frame) ==
    /\ sw.pc = "select"
    /\ LET header_size == SerializedSize(FALSE, 0)
           max_payload == MaxPayload(header_size)
       IN  IF max_payload = 0
           THEN sw' = SwIdle("top")
           ELSE sw' = [pc |-> "chunks",
                       frame_id |-> frame.sequence,
                       frame_len |-> frame.len,
                       max_payload |-> max_payload,
                       total_fragments |-> TotalFragments(frame.len, max_payload),
                       index |-> 0,
                       sent_all |-> TRUE]
    /\ dgram' = None
    /\ emitted' = 0
    /\ covered' = 0

\* A wrong send_datagram: no check before the connection is used
SendDatagramUnchecked(s, size) == {"Ok", "Send"}

\* send_datagram(bytes) on the Host's transport: the possible results
SendDatagramResults(s, size) ==
    IF ~conn[s] THEN {"NotConnected"}
    ELSE IF size > MAX_DATAGRAM_SIZE THEN {"DatagramTooLarge"}
    ELSE {"Ok", "Send"}

\* send_datagram(bytes) gets as far as connection.send_datagram(data)
HandedToConnection(s, size) == conn[s] /\ size <= MAX_DATAGRAM_SIZE

\* one turn of `for (index, chunk) in frame.data.chunks(max_payload).enumerate()`
HostSendFragment(s) ==
    /\ sw.pc = "chunks"
    /\ sw.index * sw.max_payload < sw.frame_len
    /\ LET off == sw.index * sw.max_payload
           len == IF sw.frame_len - off < sw.max_payload
                  THEN sw.frame_len - off ELSE sw.max_payload
           size == SerializedSize(FALSE, len)
       IN  \E res \in SendDatagramResults(s, size) :
              /\ dgram' = Some([on |-> s,
                                handed |-> HandedToConnection(s, size),
                                frame_id |-> sw.frame_id,
                                frame_len |-> sw.frame_len,
                                fragment_index |-> sw.index % U16,
                                total_fragments |-> sw.total_fragments,
                                off |-> off, len |-> len, size |-> size,
                                res |-> res])
              /\ IF res = "Ok"
                 THEN /\ sw' = [sw EXCEPT !.index = @ + 1]
                      /\ emitted' = emitted + 1
                      /\ covered' = covered + len
                 ELSE /\ sw' = [sw EXCEPT !.sent_all = FALSE, !.pc = "sent"]
                      /\ UNCHANGED <<emitted, covered>>

\* the chunks are exhausted: the loop over the fragments ends
HostChunksDone ==
    /\ sw.pc = "chunks"
    /\ sw.index * sw.max_payload >= sw.frame_len
    /\ sw' = [sw EXCEPT !.pc = "sent"]
    /\ UNCHANGED <<dgram, emitted, covered>>

\* after the loop: the frame is counted if sent_all; back to the loop's top
HostFrameEnd ==
    /\ sw.pc = "sent"
    /\ sw' = SwIdle("top")
    /\ UNCHANGED <<dgram, emitted, covered>>

\* Ok(data) = transport.recv_datagram(): an input packet is injected
HostRecvInput ==
    /\ sw.pc = "select"
    /\ sw' = SwIdle("top")
    /\ UNCHANGED <<dgram, emitted, covered>>

SendNext(s) ==
    \/ HostLoopTop(s)
    \/ \E frame \in EncodedFrames : HostRecvFrame(frame)
    \/ HostSendFragment(s)
    \/ HostChunksDone
    \/ HostFrameEnd
    \/ HostRecvInput

\* ------------------------------------------------------------------------
\* QuicTransport, called directly
\* ------------------------------------------------------------------------
\* the lengths of the datagrams an application hands to send_datagram
DatagramSizes ==
    {0, 1, MAX_DATAGRAM_SIZE - 1, MAX_DATAGRAM_SIZE, MAX_DATAGRAM_SIZE + 1,
     2 * MAX_DATAGRAM_SIZE}

\* connect() or accept() completes: *self.connection.write() = Some(connection)
TransportOpens(s) ==
    /\ ~conn[s]
    /\ conn' = [conn EXCEPT ![s] = TRUE]
    /\ UNCHANGED sendVars

\* close(reason): self.connection.write().take()
TransportClose(s) ==
    /\ conn' = [conn EXCEPT ![s] = FALSE]
    /\ UNCHANGED sendVars

\* send_datagram(data) with data.len() = size
TransportSend(s, size) ==
    /\ \E res \in SendDatagramResults(s, size) :
          dgram' = Some([on |-> s,
                         handed |-> HandedToConnection(s, size),
                         frame_id |-> 0, frame_len |-> 0,
                         fragment_index |-> 0, total_fragments |-> 0,
                         off |-> 0, len |-> size, size |-> size,
                         res |-> res])
    /\ UNCHANGED <<sw, emitted, covered, conn>>

\* ------------------------------------------------------------------------
\* Sessions, peers and signaling messages
\* ------------------------------------------------------------------------
\* One Session per application and peer id: H is a Host, V and W are Viewers
\* whose remote_peer_id is H (the Host's own remote_peer_id is a placeholder)
Hosts == {"H"}
Viewers == {"V", "W"}
NoPeer == "-"
Role(s) == IF s \in Hosts THEN "Host" ELSE "Viewer"
RemotePeerId(s) == IF s \in Hosts THEN NoPeer ELSE "H"

SessionStates ==
    {"Disconnected", "Connecting", "WaitingForPeer", "NatTraversal",
     "Handshaking", "Active", "Paused", "Ended", "Failed"}

\* SignalingMessage: the variant, its peer id field, and its text or candidate
Msg(type, peer, body) == [type |-> type, peer |-> peer, body |-> body]
Register(peer_id) == Msg("Register", peer_id, <<>>)
Registered(peer_id) == Msg("Registered", peer_id, <<>>)
Connect(target_peer_id) == Msg("Connect", target_peer_id, <<>>)
IncomingConnection(from_peer_id) == Msg("IncomingConnection", from_peer_id, <<>>)
Accept(from_peer_id) == Msg("Accept", from_peer_id, <<>>)
Reject(from_peer_id, reason) == Msg("Reject", from_peer_id, reason)
Connected(peer_id) == Msg("Connected", peer_id, <<>>)
IceCandidateMsg(target_peer_id, candidate) == Msg("IceCandidate", target_peer_id, candidate)
ErrorMsg(message) == Msg("Error", NoPeer, message)

\* the texts, word by word
QueuedText == <<"Peer", "is", "offline,", "request", "queued">>
RejectReason == <<"User", "rejected", "request">>
RejectedText(reason) == <<"Connection", "rejected:">> \o reason
UnknownText == <<"Internal", "error">>

\* message.contains(word)
Contains(message, word) == \E i \in 1..Len(message) : message[i] = word

\* IceCandidate { address: local_ip.to_string(), port: local_port, .. }
LocalIp(s) == IF s = "H" THEN "10.0.0.1" ELSE IF s = "V" THEN "10.0.0.2" ELSE "10.0.0.3"
Candidate(s) == <<LocalIp(s), "4433">>
NamedCandidate == <<"entangle.local", "4433">>

\* format!("{}:{}", address, port).parse::<SocketAddr>(): only an IP literal parses
ParseSocketAddr(candidate) ==
    IF candidate[1] \in {LocalIp(s) : s \in Sessions} THEN Some(candidate) ELSE None

\* SessionResult of connect()
Ok == <<"Ok">>
Err(kind, text) == <<kind, text>>

CallIdle ==
    [pc |-> "idle", from_peer_id |-> NoPeer, approved |-> FALSE, rx |-> "none",
     remote_addr |-> None, res |-> None]

\* return Err(..) / Ok(..) from connect()
Return(c, result) == [c EXCEPT !.pc = "returned", !.res = result]

SockIdle == [pc |-> "recv", peer_id |-> None, target |-> NoPeer]

\* ------------------------------------------------------------------------
\* Session::connect
\* ------------------------------------------------------------------------
\* connect() is entered: the state is set to Connecting
ConnectStart(s) ==
    /\ call[s].pc = "idle"
    /\ state' = [state EXCEPT ![s] = "Connecting"]
    /\ call' = [call EXCEPT ![s].pc = "signaling"]
    /\ UNCHANGED <<running, pending, stop, runpc, okd, rres, conn, sigVars, brokerVars>>

\* SignalingClient::connect succeeds: the socket is open, Register is written
\* to it and the relay task is spawned
SignalingConnect(s) ==
    /\ call[s].pc = "signaling"
    /\ sig' = [sig EXCEPT ![s] = "open"]
    /\ up' = [up EXCEPT ![s] = Append(@, Register(s))]
    /\ sent' = [sent EXCEPT ![s] = Append(@, Register(s))]
    /\ call' = [call EXCEPT ![s].pc = "registering"]
    /\ UNCHANGED <<state, running, pending, stop, runpc, okd, rres, conn, down, served, heard, brokerVars>>

\* SignalingClient::connect fails
SignalingFails(s) ==
    /\ call[s].pc = "signaling"
    /\ call' = [call EXCEPT ![s] = Return(call[s], Err("Connection", "Signaling failed"))]
    /\ UNCHANGED <<state, running, pending, stop, runpc, okd, rres, conn, sigVars, brokerVars>>

\* the registration loop: one signal_rx.recv() that returned in time
Registration(s) ==
    /\ call[s].pc = "registering"
    /\ \/ /\ down[s] /= <<>>
          /\ LET m == Head(down[s]) IN
             call' = [call EXCEPT ![s] =
                 IF m.type = "Registered" /\ m.peer = s
                 THEN [call[s] EXCEPT !.pc = "binding"]
                 ELSE IF m.type = "Error"
                 THEN Return(call[s], Err("Connection", "Signaling error"))
                 ELSE call[s]]
          /\ down' = [down EXCEPT ![s] = Tail(@)]
       \/ /\ down[s] = <<>>
          /\ sig[s] = "closed"
          /\ call' = [call EXCEPT ![s] = Return(call[s], Err("Connection", "Signaling closed"))]
          /\ UNCHANGED down
    /\ UNCHANGED <<state, running, pending, stop, runpc, okd, rres, conn, sig, up, sent, served, heard, brokerVars>>

\* the registration loop: nothing arrived for 5 seconds
RegistrationTimeout(s) ==
    /\ call[s].pc = "registering"
    /\ down[s] = <<>>
    /\ sig[s] = "open"
    /\ call' = [call EXCEPT ![s] = Return(call[s], Err("Connection", "Registration timeout"))]
    /\ UNCHANGED <<state, running, pending, stop, runpc, okd, rres, conn, sigVars, brokerVars>>

\* QuicTransport::new_server / new_client succeeds
TransportNew(s) ==
    /\ call[s].pc = "binding"
    /\ call' = [call EXCEPT ![s].pc = IF Role(s) = "Host" THEN "waiting" ELSE "requesting"]
    /\ UNCHANGED <<state, running, pending, stop, runpc, okd, rres, conn, sigVars, brokerVars>>

\* QuicTransport::new_server / new_client fails
TransportNewFails(s) ==
    /\ call[s].pc = "binding"
    /\ call' = [call EXCEPT ![s] = Return(call[s], Err("Transport", "bind"))]
    /\ UNCHANGED <<state, running, pending, stop, runpc, okd, rres, conn, sigVars, brokerVars>>

\* Host: one signal_rx.recv() of the wait loop. An IncomingConnection is
\* notified and published as the pending connection; an Error and any other
\* message are passed over (as is the 60 s timeout, which changes nothing).
HostWait(s) ==
    /\ Role(s) = "Host"
    /\ call[s].pc = "waiting"
    /\ \/ /\ down[s] /= <<>>
          /\ down' = [down EXCEPT ![s] = Tail(@)]
          /\ heard' = [heard EXCEPT ![s] = Append(@, Head(down[s]))]
          /\ LET m == Head(down[s]) IN
             IF m.type = "IncomingConnection"
             THEN /\ pending' = [pending EXCEPT ![s] = Some(m.peer)]
                  /\ call' = [call EXCEPT ![s] =
                        [call[s] EXCEPT !.pc = "approving", !.from_peer_id = m.peer,
                                        !.rx = "waiting"]]
             ELSE UNCHANGED <<pending, call>>
       \/ /\ down[s] = <<>>
          /\ sig[s] = "closed"
          /\ call' = [call EXCEPT ![s] = Return(call[s], Err("Connection", "Signaling closed"))]
          /\ UNCHANGED <<down, heard, pending>>
    /\ UNCHANGED <<state, running, stop, runpc, okd, rres, conn, sig, up, sent, served, brokerVars>>

\* A wrong decision: every outcome of the wait, the timeout too, approves
ApprovedAny(outcome) == TRUE

\* Ok(Ok(value)) => value, _ => false
Approved(outcome) == outcome = "true"

\* Host: the oneshot answered within 120 s
HostApproval(s) ==
    /\ call[s].pc = "approving"
    /\ call[s].rx \in {"true", "false"}
    /\ call' = [call EXCEPT ![s] =
          [call[s] EXCEPT !.pc = "taking", !.approved = Approved(call[s].rx),
                          !.rx = "dropped"]]
    /\ UNCHANGED <<state, running, pending, stop, runpc, okd, rres, conn, sigVars, brokerVars>>

\* Host: no answer on the oneshot within 120 s
ApprovalTimeout(s) ==
    /\ call[s].pc = "approving"
    /\ call[s].rx = "waiting"
    /\ call' = [call EXCEPT ![s] =
          [call[s] EXCEPT !.pc = "taking", !.approved = Approved("elapsed"),
                          !.rx = "dropped"]]
    /\ UNCHANGED <<state, running, pending, stop, runpc, okd, rres, conn, sigVars, brokerVars>>

\* Host: self.pending_connection.lock().take()
HostTake(s) ==
    /\ call[s].pc = "taking"
    /\ pending' = [pending EXCEPT ![s] = None]
    /\ call' = [call EXCEPT ![s].pc = "replying"]
    /\ UNCHANGED <<state, running, stop, runpc, okd, rres, conn, sigVars, brokerVars>>

\* A wrong answer: Accept whatever the decision
ReplyAccept(from_peer_id, approved) == Accept(from_peer_id)

\* the message the Host answers a request with
Reply(from_peer_id, approved) ==
    IF approved THEN Accept(from_peer_id) ELSE Reject(from_peer_id, RejectReason)

\* Host: signal_tx.send(Accept) and break, or signal_tx.send(Reject) and
\* continue; the send fails once the relay task has ended
HostReply(s) ==
    /\ call[s].pc = "replying"
    /\ IF sig[s] = "open"
       THEN /\ up' = [up EXCEPT ![s] = Append(@, Reply(call[s].from_peer_id, call[s].approved))]
            /\ sent' = [sent EXCEPT ![s] = Append(@, Reply(call[s].from_peer_id, call[s].approved))]
            /\ call' = [call EXCEPT ![s].pc = IF call[s].approved THEN "offering" ELSE "waiting"]
       ELSE /\ call' = [call EXCEPT ![s] = Return(call[s], Err("ChannelError", "send"))]
            /\ UNCHANGED <<up, sent>>
    /\ UNCHANGED <<state, running, pending, stop, runpc, okd, rres, conn, sig, down, served, heard, brokerVars>>

\* Host: send IceCandidate{target_peer_id: viewer_peer_id, candidate}
HostOffer(s) ==
    /\ call[s].pc = "offering"
    /\ IF sig[s] = "open"
       THEN /\ up' = [up EXCEPT ![s] = Append(@, IceCandidateMsg(call[s].from_peer_id, Candidate(s)))]
            /\ sent' = [sent EXCEPT ![s] = Append(@, IceCandidateMsg(call[s].from_peer_id, Candidate(s)))]
            /\ call' = [call EXCEPT ![s].pc = "accepting"]
       ELSE /\ call' = [call EXCEPT ![s] = Return(call[s], Err("ChannelError", "send"))]
            /\ UNCHANGED <<up, sent>>
    /\ UNCHANGED <<state, running, pending, stop, runpc, okd, rres, conn, sig, down, served, heard, brokerVars>>

\* Viewer: send Connect{target_peer_id: remote_peer_id}
ViewerRequest(s) ==
    /\ call[s].pc = "requesting"
    /\ IF sig[s] = "open"
       THEN /\ up' = [up EXCEPT ![s] = Append(@, Connect(RemotePeerId(s)))]
            /\ sent' = [sent EXCEPT ![s] = Append(@, Connect(RemotePeerId(s)))]
            /\ call' = [call EXCEPT ![s].pc = "awaiting"]
       ELSE /\ call' = [call EXCEPT ![s] = Return(call[s], Err("ChannelError", "send"))]
            /\ UNCHANGED <<up, sent>>
    /\ UNCHANGED <<state, running, pending, stop, runpc, okd, rres, conn, sig, down, served, heard, brokerVars>>

\* A wrong test: no Error is passed over
ToleratedNone(message) == FALSE

\* message.contains("queued")
Tolerated(message) == Contains(message, "queued")

\* Viewer: what one received message does to the candidate loop
AfterCandidateMsg(c, m, remote_peer_id) ==
    IF m.type = "IceCandidate"
    THEN IF m.peer = remote_peer_id
         THEN IF ParseSocketAddr(m.body) /= None
              THEN [c EXCEPT !.pc = "connecting", !.remote_addr = ParseSocketAddr(m.body)]
              ELSE Return(c, Err("Connection", "Invalid remote address"))
         ELSE c
    ELSE IF m.type = "Error"
    THEN IF Tolerated(m.body) THEN c ELSE Return(c, Err("Connection", "Remote error"))
    ELSE c

\* Viewer: one signal_rx.recv() of the candidate loop that returned in time
ViewerAwait(s) ==
    /\ Role(s) = "Viewer"
    /\ call[s].pc = "awaiting"
    /\ \/ /\ down[s] /= <<>>
          /\ down' = [down EXCEPT ![s] = Tail(@)]
          /\ heard' = [heard EXCEPT ![s] = Append(@, Head(down[s]))]
          /\ call' = [call EXCEPT ![s] = AfterCandidateMsg(call[s], Head(down[s]), RemotePeerId(s))]
       \/ /\ down[s] = <<>>
          /\ sig[s] = "closed"
          /\ call' = [call EXCEPT ![s] = Return(call[s], Err("Connection", "Signaling closed"))]
          /\ UNCHANGED <<down, heard>>
    /\ UNCHANGED <<state, running, pending, stop, runpc, okd, rres, conn, sig, up, sent, served, brokerVars>>

\* Viewer: nothing arrived for 120 seconds
CandidateTimeout(s) ==
    /\ call[s].pc = "awaiting"
    /\ down[s] = <<>>
    /\ sig[s] = "open"
    /\ call' = [call EXCEPT ![s] = Return(call[s], Err("Connection", "Candidate timeout"))]
    /\ UNCHANGED <<state, running, pending, stop, runpc, okd, rres, conn, sigVars, brokerVars>>

\* the QUIC handshake between a Viewer in transport.connect(remote_addr) and
\* the Host in transport.accept() at that address completes on both sides
Handshake(v, h) ==
    /\ call[v].pc = "connecting"
    /\ call[h].pc = "accepting"
    /\ call[v].remote_addr = Some(Candidate(h))
    /\ ~conn[v] /\ ~conn[h]
    /\ conn' = [conn EXCEPT ![v] = TRUE, ![h] = TRUE]
    /\ call' = [call EXCEPT ![v].pc = "established", ![h].pc = "established"]
    /\ UNCHANGED <<state, running, pending, stop, runpc, okd, rres, sigVars, brokerVars>>

\* transport.connect() against a peer outside the model: Ok
TransportConnected(s) ==
    /\ call[s].pc = "connecting"
    /\ ~conn[s]
    /\ conn' = [conn EXCEPT ![s] = TRUE]
    /\ call' = [call EXCEPT ![s].pc = "established"]
    /\ UNCHANGED <<state, running, pending, stop, runpc, okd, rres, sigVars, brokerVars>>

\* transport.connect() fails: ConnectionFailed
TransportConnectFails(s) ==
    /\ call[s].pc = "connecting"
    /\ call' = [call EXCEPT ![s] = Return(call[s], Err("Connection", "ConnectionFailed"))]
    /\ UNCHANGED <<state, running, pending, stop, runpc, okd, rres, conn, sigVars, brokerVars>>

\* transport.accept() with a peer outside the model: Ok
TransportAccepted(s) ==
    /\ call[s].pc = "accepting"
    /\ conn' = [conn EXCEPT ![s] = TRUE]
    /\ call' = [call EXCEPT ![s].pc = "established"]
    /\ UNCHANGED <<state, running, pending, stop, runpc, okd, rres, sigVars, brokerVars>>

\* transport.accept() fails: ConnectionFailed
TransportAcceptFails(s) ==
    /\ call[s].pc = "accepting"
    /\ call' = [call EXCEPT ![s] = Return(call[s], Err("Connection", "ConnectionFailed"))]
    /\ UNCHANGED <<state, running, pending, stop, runpc, okd, rres, conn, sigVars, brokerVars>>

\* *self.state.write() = SessionState::Active
SetActive(s) ==
    /\ call[s].pc = "established"
    /\ state' = [state EXCEPT ![s] = "Active"]
    /\ call' = [call EXCEPT ![s].pc = "activating"]
    /\ UNCHANGED <<running, pending, stop, runpc, okd, rres, conn, sigVars, brokerVars>>

\* self.running.store(true); Ok(ActiveSession)
SetRunning(s) ==
    /\ call[s].pc = "activating"
    /\ running' = [running EXCEPT ![s] = TRUE]
    /\ call' = [call EXCEPT ![s] = Return(call[s], Ok)]
    /\ UNCHANGED <<state, pending, stop, runpc, okd, rres, conn, sigVars, brokerVars>>

\* ------------------------------------------------------------------------
\* The application: resolve_pending_connection, stop_session, run
\* ------------------------------------------------------------------------
\* no resolve_pending_connection call yet
NoCall == [from_peer_id |-> NoPeer, approved |-> FALSE, res |-> None]

Resolved(from_peer_id, approved, res) ==
    [from_peer_id |-> from_peer_id, approved |-> approved, res |-> res]

\* A wrong restore: the slot is left empty after a mismatch
SlotDropped(p) == None

\* *pending = Some(p): the slot after a call with another peer's id
SlotRestored(p) == Some(p)

\* resolve_pending_connection(from_peer_id, approved) returning Ok: the
\* pending connection is taken and the decision sent on its oneshot (a send
\* to a dropped receiver is ignored).
Resolve(s, from_peer_id, approved) ==
    /\ pending[s] = Some(from_peer_id)
    /\ pending' = [pending EXCEPT ![s] = None]
    /\ call' = [call EXCEPT ![s].rx =
          IF @ = "waiting" THEN (IF approved THEN "true" ELSE "false") ELSE @]
    /\ okd' = [okd EXCEPT ![s] = @ \cup {<<from_peer_id, approved>>}]
    /\ rres' = [rres EXCEPT ![s] = Resolved(from_peer_id, approved, Ok)]
    /\ UNCHANGED <<state, running, stop, runpc, conn, sigVars, brokerVars>>

\* resolve_pending_connection(from_peer_id, approved) while the request of
\* another peer is pending: the slot is taken, put back, and the call fails
ResolveMismatch(s, from_peer_id, approved) ==
    /\ pending[s] /= None
    /\ Get(pending[s]) /= from_peer_id
    /\ pending' = [pending EXCEPT ![s] = SlotRestored(Get(pending[s]))]
    /\ rres' = [rres EXCEPT ![s] =
          Resolved(from_peer_id, approved, Err("Connection", "Mismatched peer id"))]
    /\ UNCHANGED <<state, running, call, stop, runpc, okd, conn, sigVars, brokerVars>>

\* resolve_pending_connection(from_peer_id, approved) with an empty slot
ResolveNotActive(s, from_peer_id, approved) ==
    /\ pending[s] = None
    /\ rres' = [rres EXCEPT ![s] = Resolved(from_peer_id, approved, Err("NotActive", ""))]
    /\ UNCHANGED <<state, running, pending, call, stop, runpc, okd, conn, sigVars, brokerVars>>

\* stop_session -> disconnect(): self.running.store(false)
StopBegin(s) ==
    /\ stop[s] = "idle"
    /\ stop' = [stop EXCEPT ![s] = "storing"]
    /\ running' = [running EXCEPT ![s] = FALSE]
    /\ UNCHANGED <<state, pending, call, runpc, okd, rres, conn, sigVars, brokerVars>>

\* stop_session -> disconnect(): *self.state.write() = SessionState::Ended
StopEnd(s) ==
    /\ stop[s] = "storing"
    /\ stop' = [stop EXCEPT ![s] = "done"]
    /\ state' = [state EXCEPT ![s] = "Ended"]
    /\ UNCHANGED <<running, pending, call, runpc, okd, rres, conn, sigVars, brokerVars>>

\* run() is entered on the ActiveSession that connect() returned
RunStart(s) ==
    /\ call[s].res = Ok
    /\ runpc[s] = "none"
    /\ runpc' = [runpc EXCEPT ![s] = "loop"]
    /\ UNCHANGED <<state, running, pending, call, stop, okd, rres, conn, sigVars, brokerVars>>

\* the main loop finds running false at its top
RunBreak(s) ==
    /\ runpc[s] = "loop"
    /\ ~running[s]
    /\ runpc' = [runpc EXCEPT ![s] = "left"]
    /\ UNCHANGED <<state, running, pending, call, stop, okd, rres, conn, sigVars, brokerVars>>

\* the main loop ends on its channels: recv_datagram fails (Viewer), or the
\* capture channel and the datagram channel are both closed (Host)
RunAbort(s) ==
    /\ runpc[s] = "loop"
    /\ running[s]
    /\ runpc' = [runpc EXCEPT ![s] = "left"]
    /\ UNCHANGED <<state, running, pending, call, stop, okd, rres, conn, sigVars, brokerVars>>

\* run() -> disconnect(): self.running.store(false)
RunDisconnect(s) ==
    /\ runpc[s] = "left"
    /\ runpc' = [runpc EXCEPT ![s] = "storing"]
    /\ running' = [running EXCEPT ![s] = FALSE]
    /\ UNCHANGED <<state, pending, call, stop, okd, rres, conn, sigVars, brokerVars>>

\* run() -> disconnect(): *self.state.write() = SessionState::Ended
RunEnd(s) ==
    /\ runpc[s] = "storing"
    /\ runpc' = [runpc EXCEPT ![s] = "ended"]
    /\ state' = [state EXCEPT ![s] = "Ended"]
    /\ UNCHANGED <<running, pending, call, stop, okd, rres, conn, sigVars, brokerVars>>

\* ------------------------------------------------------------------------
\* The worker loops of an Active session: the Host's capture thread and send
\* loop, the Viewer's receive loop and input loop
\* ------------------------------------------------------------------------
\* mpsc::channel::<EncodedFrame>(10) in run_host: the model's capacity
FrameCap == 2

\* the encoded frames the capture thread produces in the model: one that
\* fits a datagram and one that takes two
CapturedFrames ==
    {f \in EncodedFrames : f.sequence = 1 /\ f.len \in {1, MaxPayload(SerializedSize(FALSE, 0)) + 1}}

\* capture_loop: while session.running.load(); after the loop the thread
\* ends and its frame_tx is dropped
CaptureTop(s) ==
    /\ capture = "top"
    /\ IF running[s]
       THEN capture' = "frame" /\ UNCHANGED frame_ch
       ELSE capture' = "ended" /\ frame_ch' = [frame_ch EXCEPT !.tx = FALSE]
    /\ UNCHANGED <<encoded, receive, input>>

\* capture_frame and encode: an encoded frame to send, or nothing this turn
\* (a capture error, no change on the screen, an encoding error)
CaptureFrame ==
    /\ capture = "frame"
    /\ \/ \E frame \in CapturedFrames : capture' = "send" /\ encoded' = Some(frame)
       \/ capture' = "sleep" /\ encoded' = None
    /\ UNCHANGED <<frame_ch, receive, input>>

AlwaysRoom(queue) == TRUE

\* the channel has a free place
HasRoom(queue) == Len(queue) < FrameCap

\* the frame takes the place behind the frames already queued
Queue(queue, frame) == Append(queue, frame)

\* frame_tx.blocking_send(encoded): waits while the channel is full, fails
\* once the send loop has dropped frame_rx
CaptureSend ==
    /\ capture = "send"
    /\ IF sw.pc = "exited"
       THEN capture' = "ended" /\ frame_ch' = [frame_ch EXCEPT !.tx = FALSE]
       ELSE /\ HasRoom(frame_ch.queue)
            /\ capture' = "sleep"
            /\ frame_ch' = [frame_ch EXCEPT !.queue = Queue(@, Get(encoded))]
    /\ encoded' = None
    /\ UNCHANGED <<receive, input>>

\* the rate limit: sleep for the rest of the frame's time
CaptureSleep ==
    /\ capture = "sleep"
    /\ capture' = "top"
    /\ UNCHANGED <<encoded, frame_ch, receive, input>>

\* what frame_rx.recv() hands out: the frame that has waited longest
Received(queue) == Head(queue)

\* the send loop's select takes a queued frame from frame_rx
HostTakeFrame(frame) ==
    /\ frame_ch.queue /= <<>>
    /\ frame = Received(frame_ch.queue)
    /\ HostRecvFrame(frame)
    /\ frame_ch' = [frame_ch EXCEPT !.queue = Tail(@)]
    /\ UNCHANGED <<capture, encoded, receive, input>>

\* run_viewer: the top of the loop, if !running { break }
ReceiveTop(s) ==
    /\ receive = "top"
    /\ receive' = IF running[s] THEN "recv" ELSE "ended"
    /\ UNCHANGED <<capture, encoded, frame_ch, input>>

\* transport.recv_datagram().await returns a datagram, which is handled
ReceiveDatagram ==
    /\ receive = "recv"
    /\ receive' = "top"
    /\ UNCHANGED <<capture, encoded, frame_ch, input>>

\* input_loop: while session.running.load()
InputTop(s) ==
    /\ input = "top"
    /\ input' = IF running[s] THEN "wait" ELSE "ended"
    /\ UNCHANGED <<capture, encoded, frame_ch, receive>>

\* input_rx.recv_timeout(100 ms) returns a packet, which is sent
InputPacket ==
    /\ input = "wait"
    /\ input' = "top"
    /\ UNCHANGED <<capture, encoded, frame_ch, receive>>

\* input_rx.recv_timeout(100 ms) returns Timeout
InputTimeout ==
    /\ input = "wait"
    /\ input' = "top"
    /\ UNCHANGED <<capture, encoded, frame_ch, receive>>

\* ------------------------------------------------------------------------
\* Session::send_input (session.rs) and the channel run_viewer makes
\* ------------------------------------------------------------------------
\* the threads that call send_input, the events they pass, how many calls
\* are made in all, and the places of the channel (bounded(100) in the code)
Callers == {"t1", "t2"}
InputEvents == {"KeyDown", "MouseMove"}
MaxInputs == 3
InputCap == 2

CallerIdle(res) == [pc |-> "idle", event |-> "-", sequence |-> 0, res |-> res]

\* InputPacket::new(sequence, event)
NewInputPacket(sequence, event) == [sequence |-> sequence, event |-> event]

CanLockAlways(mutex) == TRUE

\* Mutex::lock returns once no other thread holds the guard
CanLock(mutex) == mutex.lock = "free"

\* run_viewer: bounded::<InputPacket>(100); *input_tx.lock() = Some(input_tx)
RunViewerChannel ==
    /\ ~input_tx.tx
    /\ CanLock(input_tx)
    /\ input_tx' = [input_tx EXCEPT !.tx = TRUE]
    /\ input_ch' = [queue |-> <<>>, rx |-> TRUE]
    /\ UNCHANGED <<input_sequence, send_input, enqueued>>

\* send_input: let tx = self.input_tx.lock()
SendInputLock(c, event) ==
    /\ send_input[c].pc = "idle"
    /\ input_sequence + Cardinality({d \in Callers : send_input[d].pc = "locked"}) < MaxInputs
    /\ CanLock(input_tx)
    /\ input_tx' = [input_tx EXCEPT !.lock = c]
    /\ send_input' = [send_input EXCEPT ![c] = [pc |-> "locked", event |-> event, sequence |-> 0, res |-> None]]
    /\ UNCHANGED <<input_sequence, input_ch, enqueued>>

\* send_input: tx.as_ref().ok_or(NotActive)?, then input_sequence.fetch_add(1)
\* and InputPacket::new; the guard is dropped when the function returns
SendInputFetch(c) ==
    /\ send_input[c].pc = "locked"
    /\ IF ~input_tx.tx
       THEN /\ send_input' = [send_input EXCEPT ![c] = CallerIdle(Some(Err("NotActive", "")))]
            /\ input_tx' = [input_tx EXCEPT !.lock = "free"]
            /\ UNCHANGED input_sequence
       ELSE /\ send_input' = [send_input EXCEPT ![c].pc = "send", ![c].sequence = input_sequence]
            /\ input_sequence' = input_sequence + 1
            /\ UNCHANGED input_tx
    /\ UNCHANGED <<input_ch, enqueued>>

\* send_input: tx.send(packet), which waits while the channel is full and
\* fails once input_rx is dropped
SendInputSend(c) ==
    /\ send_input[c].pc = "send"
    /\ LET packet == NewInputPacket(send_input[c].sequence, send_input[c].event)
       IN  IF ~input_ch.rx
           THEN /\ send_input' = [send_input EXCEPT ![c] = CallerIdle(Some(Err("ChannelError", "")))]
                /\ UNCHANGED <<input_ch, enqueued>>
           ELSE /\ Len(input_ch.queue) < InputCap
                /\ input_ch' = [input_ch EXCEPT !.queue = Append(@, packet)]
                /\ enqueued' = Append(enqueued, packet)
                /\ send_input' = [send_input EXCEPT ![c] = CallerIdle(Some(Ok))]
    /\ input_tx' = [input_tx EXCEPT !.lock = "free"]
    /\ UNCHANGED input_sequence

\* input_loop: input_rx.recv_timeout returns the packet that waited longest
InputRecv ==
    /\ input_ch.rx
    /\ input_ch.queue /= <<>>
    /\ input_ch' = [input_ch EXCEPT !.queue = Tail(@)]
    /\ UNCHANGED <<input_tx, input_sequence, send_input, enqueued>>

\* input_loop returns (running is false): input_rx is dropped
InputLoopEnds ==
    /\ input_ch.rx
    /\ input_ch' = [input_ch EXCEPT !.rx = FALSE]
    /\ UNCHANGED <<input_tx, input_sequence, send_input, enqueued>>

InputNext ==
    \/ RunViewerChannel
    \/ \E c \in Callers : \E event \in InputEvents : SendInputLock(c, event)
    \/ \E c \in Callers : SendInputFetch(c)
    \/ \E c \in Callers : SendInputSend(c)
    \/ InputRecv
    \/ InputLoopEnds

\* ------------------------------------------------------------------------
\* The application's start_session command (commands.rs)
\* ------------------------------------------------------------------------
CmdIdle == [pc |-> "idle", res |-> None, before |-> {}]

\* start_session up to state.add_session: SessionExists if the registry
\* holds the remote peer id, else a new Session is made and stored
StartSession(s) ==
    /\ cmd[s].pc \in {"idle", "returned"}
    /\ IF RemotePeerId(s) \in sessions[s]
       THEN /\ cmd' = [cmd EXCEPT ![s] = [pc |-> "returned", res |-> Some(Err("SessionExists", "")),
                                          before |-> sessions[s]]]
            /\ UNCHANGED <<sessions, state, running, pending, call>>
       ELSE /\ cmd' = [cmd EXCEPT ![s] = [pc |-> "connect", res |-> None, before |-> sessions[s]]]
            /\ sessions' = [sessions EXCEPT ![s] = @ \cup {RemotePeerId(s)}]
            /\ state' = [state EXCEPT ![s] = "Disconnected"]
            /\ running' = [running EXCEPT ![s] = FALSE]
            /\ pending' = [pending EXCEPT ![s] = None]
            /\ call' = [call EXCEPT ![s] = CallIdle]
    /\ UNCHANGED <<stop, runpc, okd, rres, conn, sigVars, brokerVars>>

\* start_session: session.connect() is entered, by the command itself for a
\* Viewer and by a spawned task for a Host, whose command returns at once
StartConnect(s) ==
    /\ cmd[s].pc = "connect"
    /\ ConnectStart(s)
    /\ cmd' = [cmd EXCEPT ![s] = IF Role(s) = "Host"
                                 THEN [@ EXCEPT !.pc = "returned", !.res = Some(Ok)]
                                 ELSE [@ EXCEPT !.pc = "awaiting"]]
    /\ UNCHANGED sessions

\* start_session of a Viewer: connect() has returned; an Err leaves through
\* the `?`, which does not touch the registry
StartSessionReturn(s) ==
    /\ cmd[s].pc = "awaiting"
    /\ call[s].pc = "returned"
    /\ IF call[s].res = Ok
       THEN cmd' = [cmd EXCEPT ![s] = [@ EXCEPT !.pc = "returned", !.res = Some(Ok)]]
       ELSE cmd' = [cmd EXCEPT ![s] = [@ EXCEPT !.pc = "returned",
                                                !.res = Some(Err("ConnectionFailed", ""))]]
    /\ UNCHANGED <<sessions, sessVars, sigVars, brokerVars>>

\* ------------------------------------------------------------------------
\* The signaling relay task, and a server outside the model
\* ------------------------------------------------------------------------
\* the relay task ends (socket error or Close): later sends on signal_tx
\* fail, and signal_rx.recv() returns None once the buffered messages are read
RelayEnds(s) ==
    /\ sig[s] = "open"
    /\ sig' = [sig EXCEPT ![s] = "closed"]
    /\ UNCHANGED <<sessVars, up, down, sent, served, heard, brokerVars>>

\* how many messages a server outside the model sends to one session
MaxServed == 4

\* what a server outside the model may send to a Host, and to a Viewer
ServerMessages(s) ==
    IF Role(s) = "Host"
    THEN {Registered(s), IncomingConnection("V"), IncomingConnection("W"),
          ErrorMsg(UnknownText)}
    ELSE {Registered(s), Connected(RemotePeerId(s)),
          ErrorMsg(QueuedText), ErrorMsg(RejectedText(RejectReason)),
          IceCandidateMsg(RemotePeerId(s), Candidate(RemotePeerId(s))),
          IceCandidateMsg(RemotePeerId(s), NamedCandidate),
          IceCandidateMsg("W", Candidate("W"))}

\* a message of the server arrives on the session's signal_rx
ServerSends(s, m) ==
    /\ sig[s] = "open"
    /\ served[s] < MaxServed
    /\ served' = [served EXCEPT ![s] = @ + 1]
    /\ down' = [down EXCEPT ![s] = Append(@, m)]
    /\ UNCHANGED <<sessVars, sig, up, sent, heard, brokerVars>>

\* ------------------------------------------------------------------------
\* The signaling server: handle_websocket, one handler per socket
\* ------------------------------------------------------------------------
\* A wrong lookup: no peer is ever found in the map
OnlineNever(id) == FALSE

\* state.peers.get(&id) is Some
Online(id) == peers[id] /= None

\* A wrong lookup: the channel of the socket named like the id
TxOfNamed(id) == id

\* the socket whose msg_tx the map holds for a registered id
TxOf(id) == Get(peers[id])

\* tx.send(m) on the channel of socket t: the message reaches the client
\* (a session's signal_rx) while the socket is open
Deliver(d, t, m) == IF sig[t] = "open" THEN [d EXCEPT ![t] = Append(@, m)] ELSE d

\* A wrong forwarding: the target_peer_id is left as the sender wrote it
ForwardedTargetSame(from_id, target_peer_id) == target_peer_id

\* the target_peer_id of a forwarded IceCandidate: the sender's id
ForwardedTarget(from_id, target_peer_id) == from_id

\* ws_rx.next() yields a message, which is handled up to the handler's next
\* access to the shared maps
ServerRecv(s) ==
    /\ sock[s].pc = "recv"
    /\ up[s] /= <<>>
    /\ up' = [up EXCEPT ![s] = Tail(@)]
    /\ LET m == Head(up[s])
           id == sock[s].peer_id
       IN  CASE m.type = "Register" ->
                 /\ sock' = [sock EXCEPT ![s] = [pc |-> "confirming", peer_id |-> Some(m.peer),
                                                 target |-> NoPeer]]
                 /\ peers' = [peers EXCEPT ![m.peer] = Some(s)]
                 /\ UNCHANGED <<down, pending_connections, relayed>>
             [] m.type = "Connect" /\ id /= None /\ Online(m.peer) ->
                 /\ down' = Deliver(down, TxOf(m.peer), IncomingConnection(Get(id)))
                 /\ UNCHANGED <<sock, peers, pending_connections, relayed>>
             [] m.type = "Connect" /\ id /= None /\ ~Online(m.peer) ->
                 /\ sock' = [sock EXCEPT ![s].pc = "queueing", ![s].target = m.peer]
                 /\ UNCHANGED <<down, peers, pending_connections, relayed>>
             [] m.type = "Accept" /\ id /= None ->
                 /\ down' = Deliver(IF Online(m.peer)
                                    THEN Deliver(down, TxOf(m.peer), Connected(Get(id)))
                                    ELSE down,
                                    s, Connected(m.peer))
                 /\ relayed' = relayed \cup {<<"Accept", Get(id), m.peer>>}
                 /\ UNCHANGED <<sock, peers, pending_connections>>
             [] m.type = "Reject" /\ id /= None ->
                 /\ down' = IF Online(m.peer)
                            THEN Deliver(down, TxOf(m.peer), ErrorMsg(RejectedText(m.body)))
                            ELSE down
                 /\ UNCHANGED <<sock, peers, pending_connections, relayed>>
             [] m.type = "IceCandidate" /\ id /= None ->
                 /\ down' = IF Online(m.peer)
                            THEN Deliver(down, TxOf(m.peer),
                                         IceCandidateMsg(ForwardedTarget(Get(id), m.peer), m.body))
                            ELSE down
                 /\ relayed' = relayed \cup {<<"IceCandidate", Get(id), m.peer>>}
                 /\ UNCHANGED <<sock, peers, pending_connections>>
             [] OTHER ->
                 UNCHANGED <<down, sock, peers, pending_connections, relayed>>
    /\ UNCHANGED <<sessVars, sig, sent, served, heard>>

\* Register, continued: msg_tx.send(Registered)
ServerConfirm(s) ==
    /\ sock[s].pc = "confirming"
    /\ down' = Deliver(down, s, Registered(Get(sock[s].peer_id)))
    /\ sock' = [sock EXCEPT ![s].pc = "draining"]
    /\ UNCHANGED <<sessVars, sig, up, sent, served, heard, peers, pending_connections, relayed>>

RECURSIVE DeliverAllReversed(_, _, _)
\* A wrong drain: the queued requesters are announced newest first
DeliverAllReversed(d, t, froms) ==
    IF froms = <<>> THEN d
    ELSE Deliver(DeliverAllReversed(d, t, Tail(froms)), t, IncomingConnection(Head(froms)))

RECURSIVE DeliverAll(_, _, _)
\* one IncomingConnection per queued requester, in the order of the queue
DeliverAll(d, t, froms) ==
    IF froms = <<>> THEN d
    ELSE DeliverAll(Deliver(d, t, IncomingConnection(Head(froms))), t, Tail(froms))

\* Register, continued: pending_connections.remove(&id) and its forwarding
ServerDrain(s) ==
    /\ sock[s].pc = "draining"
    /\ LET id == Get(sock[s].peer_id) IN
          /\ down' = DeliverAll(down, s, pending_connections[id])
          /\ pending_connections' = [pending_connections EXCEPT ![id] = <<>>]
    /\ sock' = [sock EXCEPT ![s].pc = "recv"]
    /\ UNCHANGED <<sessVars, sig, up, sent, served, heard, peers, relayed>>

\* Connect to a peer that was not in the map, continued: the request is
\* queued and the requester told
ServerQueue(s) ==
    /\ sock[s].pc = "queueing"
    /\ pending_connections' =
          [pending_connections EXCEPT ![sock[s].target] = Append(@, Get(sock[s].peer_id))]
    /\ down' = Deliver(down, s, ErrorMsg(QueuedText))
    /\ sock' = [sock EXCEPT ![s].pc = "recv", ![s].target = NoPeer]
    /\ UNCHANGED <<sessVars, sig, up, sent, served, heard, peers, relayed>>

\* the socket is closed: the handler removes its peer id from the map
ServerCleanup(s) ==
    /\ sock[s].pc = "recv"
    /\ up[s] = <<>>
    /\ sig[s] = "closed"
    /\ peers' = IF sock[s].peer_id /= None
               THEN [peers EXCEPT ![Get(sock[s].peer_id)] = None]
               ELSE peers
    /\ sock' = [sock EXCEPT ![s].pc = "closed"]
    /\ UNCHANGED <<sessVars, sigVars, pending_connections, relayed>>

ServerStep(s) ==
    \/ ServerRecv(s)
    \/ ServerConfirm(s)
    \/ ServerDrain(s)
    \/ ServerQueue(s)

\* ------------------------------------------------------------------------
\* Any WebSocket clients of the signaling server
\* ------------------------------------------------------------------------
\* how many requests a client lets queue up for one offline peer
MaxQueued == 2

RECURSIVE SumOver(_, _)
\* the sum of f over the sessions in S
SumOver(f, S) ==
    IF S = {} THEN 0
    ELSE LET x == CHOOSE y \in S : TRUE IN f[x] + SumOver(f, S \ {x})

\* requests in the server's offline queues
Queued == SumOver([t \in Sessions |-> Len(pending_connections[t])], Sessions)

\* What a client may write to its socket, any number of times and in any
\* order: the first client registers and answers the second one's request,
\* the second registers and calls the first or the third, the third
\* registers its own id or the first one's and calls the first.
ClientMessages(s) ==
    CASE s = "H" -> {Register("H"), Accept("V"), IceCandidateMsg("V", Candidate("H"))}
      [] s = "V" -> {Register("V"), Connect("H"), Connect("W"),
                     IceCandidateMsg("H", Candidate("V"))}
      [] s = "W" -> {Register("W"), Register("H"), Connect("H")}

\* ws_handler: a client opens a WebSocket and its handler starts
ClientOpens(s) ==
    /\ sig[s] = "none"
    /\ sig' = [sig EXCEPT ![s] = "open"]
    /\ UNCHANGED <<sessVars, up, down, sent, served, heard, brokerVars>>

\* a client writes a message to its socket, once the clients have read what
\* the server sent and the server has read what they wrote; at most one
\* other handler is still at work on what it read
ClientSends(s, m) ==
    /\ sig[s] = "open"
    /\ \A t \in Sessions : up[t] = <<>> /\ down[t] = <<>>
    /\ sock[s].pc = "recv"
    /\ Cardinality({t \in Sessions : sock[t].pc \notin {"recv", "closed"}}) <= 1
    /\ m.type = "Connect" => Queued < MaxQueued
    /\ up' = [up EXCEPT ![s] = Append(@, m)]
    /\ UNCHANGED <<sessVars, sig, down, sent, served, heard, brokerVars>>

\* a client closes its socket, while no message is under way and no
\* handler at work
ClientCloses(s) ==
    /\ \A t \in Sessions : up[t] = <<>> /\ down[t] = <<>>
    /\ \A t \in Sessions : sock[t].pc \in {"recv", "closed"}
    /\ RelayEnds(s)

\* a client reads the oldest message the server sent it
ClientReads(s) ==
    /\ down[s] /= <<>>
    /\ down' = [down EXCEPT ![s] = Tail(@)]
    /\ UNCHANGED <<sessVars, sig, up, sent, served, heard, brokerVars>>

\* ------------------------------------------------------------------------
\* CongestionController (net-transport/src/congestion.rs)
\* ------------------------------------------------------------------------
\* A Duration is a whole number of nanoseconds; the configuration and the
\* waits between calls are in milliseconds
Millis == 1000000

Min(a, b) == IF a <= b THEN a ELSE b
Max(a, b) == IF a >= b THEN a ELSE b

\* CongestionConfig::default(); the two rates are in hundredths
DefaultConfig ==
    [min_bitrate_kbps |-> 500, max_bitrate_kbps |-> 10000, initial_bitrate_kbps |-> 3000,
     target_rtt_ms |-> 50, rtt_threshold_ms |-> 100,
     increase_rate |-> 5, decrease_rate |-> 20,
     min_fps |-> 10, max_fps |-> 60]

\* the configurations a controller is made with: the default one, and one
\* for a slow link whose bitrates are a few kbps
Configs ==
    {DefaultConfig,
     [DefaultConfig EXCEPT !.min_bitrate_kbps = 8, !.initial_bitrate_kbps = 10,
                           !.max_bitrate_kbps = 16]}

\* CongestionController::new
NewController(config) ==
    [config |-> config,
     current_params |-> [bitrate_kbps |-> config.initial_bitrate_kbps, fps |-> 30, quality |-> 70],
     rtt_samples |-> <<>>,
     smoothed_rtt |-> 50 * Millis,
     rtt_variance |-> 10 * Millis,
     last_adjustment |-> 0]

\* The samples record_rtt is called with, and how long the caller waits
\* before each call (ms)
RttSamples == {10 * Millis, 101 * Millis, 452 * Millis}
Waits == {100, 500, 2100}
MaxCalls == 3
\* record_rtt keeps the samples of the last 2 seconds (ms)
Window == 2000
\* adjust_params does nothing within 500 ms of the last adjustment (ms)
AdjustEvery == 500
\* what set_bitrate and set_fps are called with
BitrateRequests == {0, 20000}
FpsRequests == {0, 255}

\* (1 - 1/k) * old + (1/k) * sample, computed in f64 seconds and converted
\* back by Duration::from_secs_f64, which rounds to the nearest nanosecond;
\* an exact half falls as the f64 error has it, either way
Ewma(old, sample, k) ==
    LET d == IF sample >= old THEN sample - old ELSE old - sample
        q == d \div k
        r == d % k
        moves == IF 2 * r < k THEN {q} ELSE IF 2 * r > k THEN {q + 1} ELSE {q, q + 1}
    IN  {IF sample >= old THEN old + m ELSE old - m : m \in moves}

RECURSIVE PopOld(_)
\* while samples.front() is older than the cutoff: pop_front
PopOld(samples) ==
    IF samples /= <<>> /\ Head(samples).age > Window THEN PopOld(Tail(samples)) ELSE samples

\* the samples after `wait` ms have passed and record_rtt has pushed `rtt`
Sampled(samples, wait, rtt) ==
    PopOld(Append([i \in 1..Len(samples) |-> [samples[i] EXCEPT !.age = @ + wait]],
                  [rtt |-> rtt, age |-> 0]))

\* (value as f64 * hundredths / 100) as u32
Scaled(value, hundredths) == (value * hundredths) \div 100

\* adjust_params, rtt_ms > threshold: the network is congested
Reduced(config, params) ==
    LET bitrate == Max(Scaled(params.bitrate_kbps, 100 - config.decrease_rate),
                       config.min_bitrate_kbps)
    IN  [bitrate_kbps |-> bitrate,
         fps |-> IF bitrate = config.min_bitrate_kbps /\ params.fps > config.min_fps
                 THEN Max(Scaled(params.fps, 80), config.min_fps)
                 ELSE params.fps,
         quality |-> Max(Scaled(params.quality, 90), 30)]

\* adjust_params, rtt_ms < target_rtt: the network has capacity
Increased(config, params) ==
    LET bitrate == Min(Scaled(params.bitrate_kbps, 100 + config.increase_rate),
                       config.max_bitrate_kbps)
    IN  [bitrate_kbps |-> bitrate,
         fps |-> IF bitrate < config.max_bitrate_kbps /\ params.fps < config.max_fps
                 THEN Min(params.fps + 1, config.max_fps)
                 ELSE params.fps,
         quality |-> Min(params.quality + 2, 100)]

\* smoothed_rtt.as_millis() as u32
RttMs(c) == c.smoothed_rtt \div Millis

AdjustAlways(c) == TRUE

\* last_adj.elapsed() >= 500 ms
AdjustDue(c) == c.last_adjustment >= AdjustEvery

\* adjust_params
AdjustParams(c) ==
    IF ~AdjustDue(c) THEN c
    ELSE [c EXCEPT !.last_adjustment = 0,
                   !.current_params =
                       IF RttMs(c) > c.config.rtt_threshold_ms THEN Reduced(c.config, @)
                       ELSE IF RttMs(c) < c.config.target_rtt_ms THEN Increased(c.config, @)
                       ELSE @]

\* what the last call found: "skipped" within 500 ms of the last adjustment,
\* else the branch adjust_params took
Branch(c) ==
    IF ~AdjustDue(c) THEN "skipped"
    ELSE IF RttMs(c) > c.config.rtt_threshold_ms THEN "reduced"
    ELSE IF RttMs(c) < c.config.target_rtt_ms THEN "increased"
    ELSE "held"

\* the caller waits `wait` ms and calls record_rtt(rtt)
RecordRtt(wait, rtt) ==
    /\ \E smoothed \in Ewma(cc.smoothed_rtt, rtt, 8) :
       \E variance \in Ewma(cc.rtt_variance,
                            IF rtt > cc.smoothed_rtt THEN rtt - cc.smoothed_rtt
                            ELSE cc.smoothed_rtt - rtt, 4) :
          LET recorded == [cc EXCEPT !.rtt_samples = Sampled(@, wait, rtt),
                                     !.smoothed_rtt = smoothed,
                                     !.rtt_variance = variance,
                                     !.last_adjustment = Min(@ + wait, AdjustEvery)]
          IN  /\ cc' = AdjustParams(recorded)
              /\ last_call' = [op |-> "record_rtt", wait |-> wait, arg |-> rtt, did |-> Branch(recorded)]
    /\ rtt_calls' = rtt_calls + 1

Unclamped(value, lo, hi) == value

\* value.clamp(lo, hi)
Clamp(value, lo, hi) == Max(lo, Min(value, hi))

\* set_bitrate
SetBitrate(bitrate_kbps) ==
    /\ cc' = [cc EXCEPT !.current_params.bitrate_kbps =
                  Clamp(bitrate_kbps, cc.config.min_bitrate_kbps, cc.config.max_bitrate_kbps)]
    /\ last_call' = [op |-> "set_bitrate", wait |-> 0, arg |-> bitrate_kbps, did |-> "set"]
    /\ UNCHANGED rtt_calls

\* set_fps
SetFps(fps) ==
    /\ cc' = [cc EXCEPT !.current_params.fps = Clamp(fps, cc.config.min_fps, cc.config.max_fps)]
    /\ last_call' = [op |-> "set_fps", wait |-> 0, arg |-> fps, did |-> "set"]
    /\ UNCHANGED rtt_calls

CongestionNext ==
    \/ rtt_calls < MaxCalls /\ \E wait \in Waits : \E rtt \in RttSamples : RecordRtt(wait, rtt)
    \/ \E bitrate_kbps \in BitrateRequests : SetBitrate(bitrate_kbps)
    \/ \E fps \in FpsRequests : SetFps(fps)

\* VecDeque::with_capacity(100): the capacity the ring of samples is made with
RingCapacity == 100
\* A caller that measures every millisecond, or comes back after a pause
\* longer than the window, and finds the round trip it is smoothed to
BurstWaits == {1, Window + 100}
SteadyRtt == 50 * Millis
MaxBurst == 101

SamplingNext ==
    rtt_calls < MaxBurst /\ \E wait \in BurstWaits : RecordRtt(wait, SteadyRtt)

\* ------------------------------------------------------------------------
\* CryptoSession (crypto-session/src/session.rs)
\* ------------------------------------------------------------------------
\* Direction
Directions == {"Initiator", "Responder"}
PeerOf(side) == IF side = "Initiator" THEN "Responder" ELSE "Initiator"

\* KeyPair::generate: each side's ephemeral key pair, named by its owner;
\* public_key_bytes hands out the public half
PublicKeyOf(side) == [public_of |-> side]

\* KeyPair::diffie_hellman: X25519 gives both sides the same secret, which
\* depends on the two key pairs and on nothing else
DiffieHellman(side, their_public) == {side, their_public.public_of}

\* CryptoSession::from_shared_secret: the secret itself is the cipher's key
FromSharedSecret(shared_secret, direction) ==
    [cipher |-> shared_secret, send_counter |-> 0, recv_counter |-> 0, direction |-> direction]

\* HandshakeBuilder::complete
HandshakeComplete(side, their_public) == FromSharedSecret(DiffieHellman(side, their_public), side)

PrefixOwn(direction, is_send) == IF direction = "Initiator" THEN "00000000" ELSE "FFFFFFFF"

\* generate_nonce: the direction prefix
Prefix(direction, is_send) ==
    IF direction = "Initiator"
    THEN IF is_send THEN "00000000" ELSE "FFFFFFFF"
    ELSE IF is_send THEN "FFFFFFFF" ELSE "00000000"

\* generate_nonce: [4 bytes direction prefix][8 bytes counter]
GenerateNonce(session, counter, is_send) ==
    [prefix |-> Prefix(session.direction, is_send), counter |-> counter]

\* ChaCha20Poly1305 encrypt: the ciphertext with its tag is opened by the
\* same key and nonce, and by no other
Seal(key, nonce, plaintext) == [key |-> key, nonce |-> nonce, plaintext |-> plaintext]

\* ChaCha20Poly1305 decrypt: Some(plaintext), or None when the tag does not
\* verify
Open(key, nonce, ciphertext) ==
    IF ciphertext.key = key /\ ciphertext.nonce = nonce THEN Some(ciphertext.plaintext) ELSE None

\* what the sides encrypt, and how many messages a side encrypts at most
Plaintexts == {"a", "b"}
MaxMessages == 3

\* encrypt, by `side`; the ciphertext goes on its way to the peer. (The
\* NonceOverflow return needs a send_counter of 2^64 - 1.)
Encrypt(side, plaintext) ==
    /\ crypto[side].send_counter < MaxMessages
    /\ LET nonce == GenerateNonce(crypto[side], crypto[side].send_counter, TRUE)
           ciphertext == Seal(crypto[side].cipher, nonce, plaintext)
       IN  /\ wire' = [wire EXCEPT ![PeerOf(side)] = Append(@, ciphertext)]
           /\ crypto' = [crypto EXCEPT ![side].send_counter = @ + 1]
           /\ plain' = [plain EXCEPT ![side] = Append(@, plaintext)]
    /\ UNCHANGED <<opened, last_decrypt>>

\* decrypt, by `side`, of the i-th ciphertext on its way to it: the counter
\* advances only when the tag verifies; a ciphertext that was opened is done
\* with, one that was not stays with the caller
Decrypt(side, i) ==
    /\ i \in 1..Len(wire[side])
    /\ LET nonce == GenerateNonce(crypto[side], crypto[side].recv_counter, FALSE)
           res == Open(crypto[side].cipher, nonce, wire[side][i])
       IN  /\ last_decrypt' = [side |-> side, index |-> i, res |-> res]
           /\ IF res = None
              THEN UNCHANGED <<crypto, wire, opened>>
              ELSE /\ crypto' = [crypto EXCEPT ![side].recv_counter = @ + 1]
                   /\ wire' = [wire EXCEPT ![side] =
                                  [j \in 1..(Len(@) - 1) |-> IF j < i THEN @[j] ELSE @[j + 1]]]
                   /\ opened' = [opened EXCEPT ![side] = Append(@, Get(res))]
    /\ UNCHANGED plain

CryptoNext ==
    \/ \E side \in Directions : \E plaintext \in Plaintexts : Encrypt(side, plaintext)
    \/ \E side \in Directions : \E i \in 1..MaxMessages : Decrypt(side, i)

\* ------------------------------------------------------------------------
\* QuicTransport: the background datagram receiver (transport.rs:166-223)
\* ------------------------------------------------------------------------
\* mpsc::channel(1000) in new_client / new_server: the model runs the same
\* code on a channel of DatagramCap places
DatagramCap == 3
\* the datagrams the connection delivers, and how many of them at most
Datagrams == {"a", "b"}
MaxReads == 5

\* the task spawned by spawn_datagram_receiver, awaiting read_datagram
ReceiverIdle == [pc |-> "read", data |-> None]

\* tx.send(data).await: how the call stands with the channel as it is
Send(ch, data) ==
    IF ~ch.rx THEN "closed"
    ELSE IF Len(ch.queue) < DatagramCap THEN "sent"
    ELSE "waiting"

\* connection.read_datagram() returns Ok(data)
ReceiverRead(data) ==
    /\ receiver.pc = "read"
    /\ reads < MaxReads
    /\ receiver' = [pc |-> "send", data |-> Some(data)]
    /\ reads' = reads + 1
    /\ UNCHANGED <<datagram_ch, taken>>

\* connection.read_datagram() returns Err: the task ends
ReceiverError ==
    /\ receiver.pc = "read"
    /\ receiver' = [pc |-> "ended", data |-> None]
    /\ UNCHANGED <<datagram_ch, reads, taken>>

\* tx.send(data).await completes: the datagram is queued and the task reads
\* on, or the channel is closed and the task ends; while the channel is full
\* the call does not complete
ReceiverSend ==
    /\ receiver.pc = "send"
    /\ LET res == Send(datagram_ch, Get(receiver.data))
       IN  /\ res /= "waiting"
           /\ IF res = "sent"
              THEN /\ datagram_ch' = [datagram_ch EXCEPT !.queue = Append(@, Get(receiver.data))]
                   /\ receiver' = ReceiverIdle
              ELSE /\ receiver' = [pc |-> "ended", data |-> None]
                   /\ UNCHANGED datagram_ch
    /\ UNCHANGED <<reads, taken>>

\* recv_datagram, when a datagram is queued: the oldest one is returned
RecvDatagram ==
    /\ datagram_ch.rx
    /\ datagram_ch.queue /= <<>>
    /\ datagram_ch' = [datagram_ch EXCEPT !.queue = Tail(@)]
    /\ taken' = Append(taken, Head(datagram_ch.queue))
    /\ UNCHANGED <<receiver, reads>>

\* the QuicTransport is dropped, and datagram_rx with it
TransportDropped ==
    /\ datagram_ch.rx
    /\ datagram_ch' = [queue |-> <<>>, rx |-> FALSE]
    /\ UNCHANGED <<receiver, reads, taken>>

ReceiverNext ==
    \/ \E data \in Datagrams : ReceiverRead(data)
    \/ ReceiverError
    \/ ReceiverSend
    \/ RecvDatagram
    \/ TransportDropped

\* ------------------------------------------------------------------------
\* Specifications
\* ------------------------------------------------------------------------
sysVars == <<sessVars, sigVars, brokerVars>>
vars == <<asmVars, sendVars, workVars, sysVars, netVars>>

\* Nothing has happened yet: an empty assembler, an idle send worker, new
\* sessions (Session::new), no sockets, an empty server
Init ==
    /\ frames = [f \in FrameIds |-> None]
    /\ ret = None
    /\ lastPkt = None
    /\ exp = [f \in FrameIds |-> FreshRun]
    /\ seen = {}
    /\ yields = [f \in FrameIds |-> 0]
    /\ slot = "none"
    /\ reset = FALSE
    /\ sw = SwIdle("top")
    /\ dgram = None
    /\ emitted = 0
    /\ covered = 0
    /\ capture = "none"
    /\ encoded = None
    /\ frame_ch = [queue |-> <<>>, tx |-> FALSE]
    /\ receive = "none"
    /\ input = "none"
    /\ state = [s \in Sessions |-> "Disconnected"]
    /\ running = [s \in Sessions |-> FALSE]
    /\ pending = [s \in Sessions |-> None]
    /\ call = [s \in Sessions |-> CallIdle]
    /\ stop = [s \in Sessions |-> "idle"]
    /\ runpc = [s \in Sessions |-> "none"]
    /\ okd = [s \in Sessions |-> {}]
    /\ rres = [s \in Sessions |-> NoCall]
    /\ conn = [s \in Sessions |-> FALSE]
    /\ sig = [s \in Sessions |-> "none"]
    /\ up = [s \in Sessions |-> <<>>]
    /\ down = [s \in Sessions |-> <<>>]
    /\ sent = [s \in Sessions |-> <<>>]
    /\ served = [s \in Sessions |-> 0]
    /\ heard = [s \in Sessions |-> <<>>]
    /\ peers = [id \in Sessions |-> None]
    /\ pending_connections = [s \in Sessions |-> <<>>]
    /\ sock = [s \in Sessions |-> SockIdle]
    /\ relayed = {}
    /\ cc = NewController(DefaultConfig)
    /\ rtt_calls = 0
    /\ last_call = [op |-> "new", wait |-> 0, arg |-> 0, did |-> "set"]
    /\ crypto = [side \in Directions |-> HandshakeComplete(side, PublicKeyOf(PeerOf(side)))]
    /\ wire = [side \in Directions |-> <<>>]
    /\ plain = [side \in Directions |-> <<>>]
    /\ opened = [side \in Directions |-> <<>>]
    /\ last_decrypt = [side |-> "-", index |-> 0, res |-> None]
    /\ receiver = [pc |-> "none", data |-> None]
    /\ datagram_ch = [queue |-> <<>>, rx |-> TRUE]
    /\ reads = 0
    /\ taken = <<>>
    /\ input_tx = [lock |-> "free", tx |-> FALSE]
    /\ input_sequence = 0
    /\ input_ch = [queue |-> <<>>, rx |-> FALSE]
    /\ send_input = [c \in Callers |-> CallerIdle(None)]
    /\ enqueued = <<>>
    /\ sessions = [s \in Sessions |-> {}]
    /\ cmd = [s \in Sessions |-> CmdIdle]
    /\ assembler = [f \in WideIds |-> None]
    /\ evicted = [before |-> [f \in WideIds |-> None], after |-> [f \in WideIds |-> None]]

\* The Host's session is Active, its transport connected and run() in its
\* main loop; the other sessions are new
SendInit ==
    /\ frames = [f \in FrameIds |-> None]
    /\ ret = None
    /\ lastPkt = None
    /\ exp = [f \in FrameIds |-> FreshRun]
    /\ seen = {}
    /\ yields = [f \in FrameIds |-> 0]
    /\ slot = "none"
    /\ reset = FALSE
    /\ sw = SwIdle("top")
    /\ dgram = None
    /\ emitted = 0
    /\ covered = 0
    /\ capture = "none"
    /\ encoded = None
    /\ frame_ch = [queue |-> <<>>, tx |-> FALSE]
    /\ receive = "none"
    /\ input = "none"
    /\ state = [s \in Sessions |-> IF s = "H" THEN "Active" ELSE "Disconnected"]
    /\ running = [s \in Sessions |-> s = "H"]
    /\ pending = [s \in Sessions |-> None]
    /\ call = [s \in Sessions |-> IF s = "H" THEN Return(CallIdle, Ok) ELSE CallIdle]
    /\ stop = [s \in Sessions |-> "idle"]
    /\ runpc = [s \in Sessions |-> IF s = "H" THEN "loop" ELSE "none"]
    /\ okd = [s \in Sessions |-> {}]
    /\ rres = [s \in Sessions |-> NoCall]
    /\ conn = [s \in Sessions |-> s = "H"]
    /\ sig = [s \in Sessions |-> "none"]
    /\ up = [s \in Sessions |-> <<>>]
    /\ down = [s \in Sessions |-> <<>>]
    /\ sent = [s \in Sessions |-> <<>>]
    /\ served = [s \in Sessions |-> 0]
    /\ heard = [s \in Sessions |-> <<>>]
    /\ peers = [id \in Sessions |-> None]
    /\ pending_connections = [s \in Sessions |-> <<>>]
    /\ sock = [s \in Sessions |-> SockIdle]
    /\ relayed = {}
    /\ cc = NewController(DefaultConfig)
    /\ rtt_calls = 0
    /\ last_call = [op |-> "new", wait |-> 0, arg |-> 0, did |-> "set"]
    /\ crypto = [side \in Directions |-> HandshakeComplete(side, PublicKeyOf(PeerOf(side)))]
    /\ wire = [side \in Directions |-> <<>>]
    /\ plain = [side \in Directions |-> <<>>]
    /\ opened = [side \in Directions |-> <<>>]
    /\ last_decrypt = [side |-> "-", index |-> 0, res |-> None]
    /\ receiver = [pc |-> "none", data |-> None]
    /\ datagram_ch = [queue |-> <<>>, rx |-> TRUE]
    /\ reads = 0
    /\ taken = <<>>
    /\ input_tx = [lock |-> "free", tx |-> FALSE]
    /\ input_sequence = 0
    /\ input_ch = [queue |-> <<>>, rx |-> FALSE]
    /\ send_input = [c \in Callers |-> CallerIdle(None)]
    /\ enqueued = <<>>
    /\ sessions = [s \in Sessions |-> {}]
    /\ cmd = [s \in Sessions |-> CmdIdle]
    /\ assembler = [f \in WideIds |-> None]
    /\ evicted = [before |-> [f \in WideIds |-> None], after |-> [f \in WideIds |-> None]]

\* The FrameAssembler under every sequence of pushes and clock ticks
SpecAsm == Init /\ [][AsmNext /\ UNCHANGED <<netVars, sendVars, workVars, sysVars>>]_vars

\* The FrameAssembler under every sequence of pushes of fragments of four
\* frames, and clock ticks
SpecEvict ==
    Init /\ [][WideNext /\ UNCHANGED <<ccVars, cryptoVars, rxVars, inVars, appVars,
                                        asmVars, sendVars, workVars, sysVars>>]_vars

\* The Host send worker of an Active session, until the session is stopped
SpecSend ==
    /\ SendInit
    /\ [][\/ SendNext("H") /\ UNCHANGED <<netVars, asmVars, workVars, sysVars>>
          \/ StopBegin("H") /\ UNCHANGED <<netVars, asmVars, sendVars, workVars>>
          \/ StopEnd("H") /\ UNCHANGED <<netVars, asmVars, sendVars, workVars>>]_vars

\* One Host session with its application, against any signaling server and
\* any transport peer
HostNext ==
    \/ ConnectStart("H")
    \/ SignalingConnect("H")
    \/ SignalingFails("H")
    \/ Registration("H")
    \/ RegistrationTimeout("H")
    \/ TransportNew("H")
    \/ TransportNewFails("H")
    \/ HostWait("H")
    \/ HostApproval("H")
    \/ ApprovalTimeout("H")
    \/ HostTake("H")
    \/ HostReply("H")
    \/ HostOffer("H")
    \/ TransportAccepted("H")
    \/ TransportAcceptFails("H")
    \/ SetActive("H")
    \/ SetRunning("H")
    \/ \E from_peer_id \in Viewers, approved \in BOOLEAN : Resolve("H", from_peer_id, approved)
    \/ StopBegin("H")
    \/ StopEnd("H")
    \/ RunStart("H")
    \/ RunBreak("H")
    \/ RunAbort("H")
    \/ RunDisconnect("H")
    \/ RunEnd("H")
    \/ RelayEnds("H")
    \/ \E m \in ServerMessages("H") : ServerSends("H", m)

SpecHost == Init /\ [][HostNext /\ UNCHANGED <<netVars, asmVars, sendVars, workVars>>]_vars

\* The Host's wait loop with an application that calls
\* resolve_pending_connection at any time with any peer id, against any
\* signaling server
ResolveNext ==
    \/ ConnectStart("H")
    \/ SignalingConnect("H")
    \/ Registration("H")
    \/ TransportNew("H")
    \/ HostWait("H")
    \/ HostApproval("H")
    \/ ApprovalTimeout("H")
    \/ HostTake("H")
    \/ HostReply("H")
    \/ HostOffer("H")
    \/ \E from_peer_id \in Viewers, approved \in BOOLEAN :
          \/ Resolve("H", from_peer_id, approved)
          \/ ResolveMismatch("H", from_peer_id, approved)
          \/ ResolveNotActive("H", from_peer_id, approved)
    \/ \E m \in ServerMessages("H") : ServerSends("H", m)

SpecResolve == Init /\ [][ResolveNext /\ UNCHANGED <<netVars, asmVars, sendVars, workVars>>]_vars

\* One Viewer session, against any signaling server and any transport peer
ViewerNext ==
    \/ ConnectStart("V")
    \/ SignalingConnect("V")
    \/ SignalingFails("V")
    \/ Registration("V")
    \/ RegistrationTimeout("V")
    \/ TransportNew("V")
    \/ TransportNewFails("V")
    \/ ViewerRequest("V")
    \/ ViewerAwait("V")
    \/ CandidateTimeout("V")
    \/ TransportConnected("V")
    \/ TransportConnectFails("V")
    \/ SetActive("V")
    \/ SetRunning("V")
    \/ RelayEnds("V")
    \/ \E m \in ServerMessages("V") : ServerSends("V", m)

SpecViewer == Init /\ [][ViewerNext /\ UNCHANGED <<netVars, asmVars, sendVars, workVars>>]_vars

\* The composed system: the Host, two Viewers, their applications and the
\* signaling server; a Viewer's socket may fail at any time
ConnectStep(s) ==
    \/ ConnectStart(s)
    \/ SignalingConnect(s)
    \/ Registration(s)
    \/ TransportNew(s)
    \/ HostWait(s)
    \/ HostApproval(s)
    \/ HostTake(s)
    \/ HostReply(s)
    \/ HostOffer(s)
    \/ ViewerRequest(s)
    \/ ViewerAwait(s)
    \/ SetActive(s)
    \/ SetRunning(s)

SysNext ==
    \/ \E s \in Sessions : ConnectStep(s)
    \/ \E s \in Sessions : ServerStep(s)
    \/ \E v \in Viewers, h \in Hosts : Handshake(v, h)
    \/ \E h \in Hosts, from_peer_id \in Viewers, approved \in BOOLEAN :
          Resolve(h, from_peer_id, approved)
    \/ \E h \in Hosts : ApprovalTimeout(h)
    \/ \E v \in Viewers : CandidateTimeout(v)
    \/ \E v \in Viewers : TransportConnectFails(v)
    \/ \E s \in Sessions : RegistrationTimeout(s)
    \/ \E v \in Viewers : RelayEnds(v)
    \/ \E s \in Sessions : ServerCleanup(s)

SpecSys == Init /\ [][SysNext /\ UNCHANGED <<netVars, asmVars, sendVars, workVars>>]_vars

\* The signaling server with three sockets whose clients send anything, in
\* any order, and close at any time
BrokerNext ==
    \/ \E s \in Sessions : ClientOpens(s)
    \/ \E s \in Sessions : \E m \in ClientMessages(s) : ClientSends(s, m)
    \/ \E s \in Sessions : ClientReads(s)
    \/ \E s \in Sessions : ClientCloses(s)
    \/ \E s \in Sessions : ServerStep(s)
    \/ \E s \in Sessions : ServerCleanup(s)

SpecBroker == Init /\ [][BrokerNext /\ UNCHANGED <<netVars, asmVars, sendVars, workVars>>]_vars

\* The sessions of the Host and of one Viewer are Active, their transports
\* connected, and run() has started its loops on both sides
WorkInit ==
    /\ frames = [f \in FrameIds |-> None]
    /\ ret = None
    /\ lastPkt = None
    /\ exp = [f \in FrameIds |-> FreshRun]
    /\ seen = {}
    /\ yields = [f \in FrameIds |-> 0]
    /\ slot = "none"
    /\ reset = FALSE
    /\ sw = SwIdle("top")
    /\ dgram = None
    /\ emitted = 0
    /\ covered = 0
    /\ capture = "top"
    /\ encoded = None
    /\ frame_ch = [queue |-> <<>>, tx |-> TRUE]
    /\ receive = "top"
    /\ input = "top"
    /\ state = [s \in Sessions |-> IF s \in {"H", "V"} THEN "Active" ELSE "Disconnected"]
    /\ running = [s \in Sessions |-> s \in {"H", "V"}]
    /\ pending = [s \in Sessions |-> None]
    /\ call = [s \in Sessions |-> IF s \in {"H", "V"} THEN Return(CallIdle, Ok) ELSE CallIdle]
    /\ stop = [s \in Sessions |-> "idle"]
    /\ runpc = [s \in Sessions |-> IF s \in {"H", "V"} THEN "loop" ELSE "none"]
    /\ okd = [s \in Sessions |-> {}]
    /\ rres = [s \in Sessions |-> NoCall]
    /\ conn = [s \in Sessions |-> s \in {"H", "V"}]
    /\ sig = [s \in Sessions |-> "none"]
    /\ up = [s \in Sessions |-> <<>>]
    /\ down = [s \in Sessions |-> <<>>]
    /\ sent = [s \in Sessions |-> <<>>]
    /\ served = [s \in Sessions |-> 0]
    /\ heard = [s \in Sessions |-> <<>>]
    /\ peers = [id \in Sessions |-> None]
    /\ pending_connections = [s \in Sessions |-> <<>>]
    /\ sock = [s \in Sessions |-> SockIdle]
    /\ relayed = {}
    /\ cc = NewController(DefaultConfig)
    /\ rtt_calls = 0
    /\ last_call = [op |-> "new", wait |-> 0, arg |-> 0, did |-> "set"]
    /\ crypto = [side \in Directions |-> HandshakeComplete(side, PublicKeyOf(PeerOf(side)))]
    /\ wire = [side \in Directions |-> <<>>]
    /\ plain = [side \in Directions |-> <<>>]
    /\ opened = [side \in Directions |-> <<>>]
    /\ last_decrypt = [side |-> "-", index |-> 0, res |-> None]
    /\ receiver = [pc |-> "none", data |-> None]
    /\ datagram_ch = [queue |-> <<>>, rx |-> TRUE]
    /\ reads = 0
    /\ taken = <<>>
    /\ input_tx = [lock |-> "free", tx |-> FALSE]
    /\ input_sequence = 0
    /\ input_ch = [queue |-> <<>>, rx |-> FALSE]
    /\ send_input = [c \in Callers |-> CallerIdle(None)]
    /\ enqueued = <<>>
    /\ sessions = [s \in Sessions |-> {}]
    /\ cmd = [s \in Sessions |-> CmdIdle]
    /\ assembler = [f \in WideIds |-> None]
    /\ evicted = [before |-> [f \in WideIds |-> None], after |-> [f \in WideIds |-> None]]

\* what the Host's workers do by themselves
HostWork ==
    \/ (CaptureTop("H") \/ CaptureFrame \/ CaptureSend \/ CaptureSleep)
          /\ UNCHANGED <<netVars, asmVars, sendVars, sysVars>>
    \/ (HostLoopTop("H") \/ HostSendFragment("H") \/ HostChunksDone \/ HostFrameEnd)
          /\ UNCHANGED <<netVars, asmVars, workVars, sysVars>>
    \/ (\E frame \in CapturedFrames : HostTakeFrame(frame)) /\ UNCHANGED <<netVars, asmVars, sysVars>>

\* what the Viewer's workers do by themselves
ViewerWork ==
    (ReceiveTop("V") \/ InputTop("V") \/ InputTimeout) /\ UNCHANGED <<netVars, asmVars, sendVars, sysVars>>

\* what arrives from outside: a datagram for the Host, a datagram for the
\* Viewer, an input event of the Viewer's user
Arrivals ==
    \/ HostRecvInput /\ UNCHANGED <<netVars, asmVars, workVars, sysVars>>
    \/ (ReceiveDatagram \/ InputPacket) /\ UNCHANGED <<netVars, asmVars, sendVars, sysVars>>

WorkNext ==
    \/ HostWork
    \/ ViewerWork
    \/ Arrivals
    \/ \E s \in {"H", "V"} : (StopBegin(s) \/ StopEnd(s)) /\ UNCHANGED <<netVars, asmVars, sendVars, workVars>>

\* The worker loops of both sides until the sessions are stopped: every
\* worker goes on when it can; nothing has to arrive from outside
SpecWork ==
    /\ WorkInit
    /\ [][WorkNext]_vars
    /\ WF_vars(HostWork)
    /\ WF_vars(ViewerWork)

\* The transports of the three sessions under any order of connecting,
\* closing and sending
TransportNext ==
    \/ \E s \in Sessions : TransportOpens(s)
    \/ \E s \in Sessions : TransportClose(s)
    \/ \E s \in Sessions : \E size \in DatagramSizes : TransportSend(s, size)

SpecTransport ==
    Init /\ [][TransportNext
                /\ UNCHANGED <<netVars, asmVars, workVars, sigVars, brokerVars>>
                /\ UNCHANGED <<state, running, pending, call, stop, runpc, okd, rres>>]_vars

\* The composed system of the Host and one Viewer in which every step is
\* taken in time (no timeout elapses, nothing fails) and every process that
\* can take a step eventually does; the application decides when it likes
LiveSessions == {"H", "V"}

LiveNext ==
    \/ \E s \in LiveSessions : ConnectStep(s)
    \/ \E s \in LiveSessions : ServerStep(s)
    \/ Handshake("V", "H")
    \/ \E approved \in BOOLEAN : Resolve("H", "V", approved)

SpecLive ==
    /\ Init
    /\ [][LiveNext /\ UNCHANGED <<netVars, asmVars, sendVars, workVars>>]_vars
    /\ \A s \in LiveSessions : WF_vars(ConnectStep(s) /\ UNCHANGED <<netVars, asmVars, sendVars, workVars>>)
    /\ \A s \in LiveSessions : WF_vars(ServerStep(s) /\ UNCHANGED <<netVars, asmVars, sendVars, workVars>>)
    /\ WF_vars(Handshake("V", "H") /\ UNCHANGED <<netVars, asmVars, sendVars, workVars>>)

\* A new controller of either configuration under any sequence of calls, at
\* most MaxCalls of them record_rtt
CongestionInit ==
    /\ frames = [f \in FrameIds |-> None]
    /\ ret = None
    /\ lastPkt = None
    /\ exp = [f \in FrameIds |-> FreshRun]
    /\ seen = {}
    /\ yields = [f \in FrameIds |-> 0]
    /\ slot = "none"
    /\ reset = FALSE
    /\ sw = SwIdle("top")
    /\ dgram = None
    /\ emitted = 0
    /\ covered = 0
    /\ capture = "none"
    /\ encoded = None
    /\ frame_ch = [queue |-> <<>>, tx |-> FALSE]
    /\ receive = "none"
    /\ input = "none"
    /\ state = [s \in Sessions |-> "Disconnected"]
    /\ running = [s \in Sessions |-> FALSE]
    /\ pending = [s \in Sessions |-> None]
    /\ call = [s \in Sessions |-> CallIdle]
    /\ stop = [s \in Sessions |-> "idle"]
    /\ runpc = [s \in Sessions |-> "none"]
    /\ okd = [s \in Sessions |-> {}]
    /\ rres = [s \in Sessions |-> NoCall]
    /\ conn = [s \in Sessions |-> FALSE]
    /\ sig = [s \in Sessions |-> "none"]
    /\ up = [s \in Sessions |-> <<>>]
    /\ down = [s \in Sessions |-> <<>>]
    /\ sent = [s \in Sessions |-> <<>>]
    /\ served = [s \in Sessions |-> 0]
    /\ heard = [s \in Sessions |-> <<>>]
    /\ peers = [id \in Sessions |-> None]
    /\ pending_connections = [s \in Sessions |-> <<>>]
    /\ sock = [s \in Sessions |-> SockIdle]
    /\ relayed = {}
    /\ cc \in {NewController(config) : config \in Configs}
    /\ rtt_calls = 0
    /\ last_call = [op |-> "new", wait |-> 0, arg |-> 0, did |-> "set"]
    /\ crypto = [side \in Directions |-> HandshakeComplete(side, PublicKeyOf(PeerOf(side)))]
    /\ wire = [side \in Directions |-> <<>>]
    /\ plain = [side \in Directions |-> <<>>]
    /\ opened = [side \in Directions |-> <<>>]
    /\ last_decrypt = [side |-> "-", index |-> 0, res |-> None]
    /\ receiver = [pc |-> "none", data |-> None]
    /\ datagram_ch = [queue |-> <<>>, rx |-> TRUE]
    /\ reads = 0
    /\ taken = <<>>
    /\ input_tx = [lock |-> "free", tx |-> FALSE]
    /\ input_sequence = 0
    /\ input_ch = [queue |-> <<>>, rx |-> FALSE]
    /\ send_input = [c \in Callers |-> CallerIdle(None)]
    /\ enqueued = <<>>
    /\ sessions = [s \in Sessions |-> {}]
    /\ cmd = [s \in Sessions |-> CmdIdle]
    /\ assembler = [f \in WideIds |-> None]
    /\ evicted = [before |-> [f \in WideIds |-> None], after |-> [f \in WideIds |-> None]]

SpecCongestion ==
    CongestionInit
        /\ [][CongestionNext /\ UNCHANGED <<asmVars, sendVars, workVars, sysVars, cryptoVars, rxVars, inVars, appVars, evVars>>]_vars

\* The default controller under a burst of record_rtt calls
SpecSampling ==
    Init /\ [][SamplingNext /\ UNCHANGED <<asmVars, sendVars, workVars, sysVars, cryptoVars, rxVars, inVars, appVars, evVars>>]_vars

\* Two sessions completed from each other's public keys, under any order of
\* encrypt calls and of decrypt calls on the ciphertexts in flight
SpecCrypto ==
    Init /\ [][CryptoNext /\ UNCHANGED <<asmVars, sendVars, workVars, sysVars, ccVars, rxVars, inVars, appVars, evVars>>]_vars

\* The Viewer's transport has connected and spawned its datagram receiver;
\* datagrams arrive, and recv_datagram is called whenever the caller likes
ReceiverInit ==
    /\ frames = [f \in FrameIds |-> None]
    /\ ret = None
    /\ lastPkt = None
    /\ exp = [f \in FrameIds |-> FreshRun]
    /\ seen = {}
    /\ yields = [f \in FrameIds |-> 0]
    /\ slot = "none"
    /\ reset = FALSE
    /\ sw = SwIdle("top")
    /\ dgram = None
    /\ emitted = 0
    /\ covered = 0
    /\ capture = "none"
    /\ encoded = None
    /\ frame_ch = [queue |-> <<>>, tx |-> FALSE]
    /\ receive = "none"
    /\ input = "none"
    /\ state = [s \in Sessions |-> "Disconnected"]
    /\ running = [s \in Sessions |-> FALSE]
    /\ pending = [s \in Sessions |-> None]
    /\ call = [s \in Sessions |-> CallIdle]
    /\ stop = [s \in Sessions |-> "idle"]
    /\ runpc = [s \in Sessions |-> "none"]
    /\ okd = [s \in Sessions |-> {}]
    /\ rres = [s \in Sessions |-> NoCall]
    /\ conn = [s \in Sessions |-> s = "V"]
    /\ sig = [s \in Sessions |-> "none"]
    /\ up = [s \in Sessions |-> <<>>]
    /\ down = [s \in Sessions |-> <<>>]
    /\ sent = [s \in Sessions |-> <<>>]
    /\ served = [s \in Sessions |-> 0]
    /\ heard = [s \in Sessions |-> <<>>]
    /\ peers = [id \in Sessions |-> None]
    /\ pending_connections = [s \in Sessions |-> <<>>]
    /\ sock = [s \in Sessions |-> SockIdle]
    /\ relayed = {}
    /\ cc = NewController(DefaultConfig)
    /\ rtt_calls = 0
    /\ last_call = [op |-> "new", wait |-> 0, arg |-> 0, did |-> "set"]
    /\ crypto = [side \in Directions |-> HandshakeComplete(side, PublicKeyOf(PeerOf(side)))]
    /\ wire = [side \in Directions |-> <<>>]
    /\ plain = [side \in Directions |-> <<>>]
    /\ opened = [side \in Directions |-> <<>>]
    /\ last_decrypt = [side |-> "-", index |-> 0, res |-> None]
    /\ receiver = ReceiverIdle
    /\ datagram_ch = [queue |-> <<>>, rx |-> TRUE]
    /\ reads = 0
    /\ taken = <<>>
    /\ input_tx = [lock |-> "free", tx |-> FALSE]
    /\ input_sequence = 0
    /\ input_ch = [queue |-> <<>>, rx |-> FALSE]
    /\ send_input = [c \in Callers |-> CallerIdle(None)]
    /\ enqueued = <<>>
    /\ sessions = [s \in Sessions |-> {}]
    /\ cmd = [s \in Sessions |-> CmdIdle]
    /\ assembler = [f \in WideIds |-> None]
    /\ evicted = [before |-> [f \in WideIds |-> None], after |-> [f \in WideIds |-> None]]

SpecReceiver ==
    ReceiverInit
        /\ [][ReceiverNext /\ UNCHANGED <<asmVars, sendVars, workVars, sysVars, ccVars, cryptoVars, inVars, appVars, evVars>>]_vars

\* One Viewer session whose send_input is called from two threads, before
\* and after run_viewer has made the input channel
SpecInput ==
    Init /\ [][InputNext /\ UNCHANGED <<asmVars, sendVars, workVars, sysVars, ccVars, cryptoVars, rxVars, appVars, evVars>>]_vars

\* One Viewer application that calls start_session again and again, against
\* any signaling server and any transport peer
StartNext ==
    \/ (StartSession("V") \/ StartConnect("V") \/ StartSessionReturn("V"))
          /\ UNCHANGED <<ccVars, cryptoVars, rxVars, inVars, evVars, asmVars, sendVars, workVars>>
    \/ (\/ SignalingConnect("V")
        \/ SignalingFails("V")
        \/ Registration("V")
        \/ RegistrationTimeout("V")
        \/ TransportNew("V")
        \/ TransportNewFails("V")
        \/ ViewerRequest("V")
        \/ ViewerAwait("V")
        \/ CandidateTimeout("V")
        \/ TransportConnected("V")
        \/ TransportConnectFails("V")
        \/ SetActive("V")
        \/ SetRunning("V")
        \/ RelayEnds("V")
        \/ \E m \in ServerMessages("V") : ServerSends("V", m))
          /\ UNCHANGED <<netVars, asmVars, sendVars, workVars>>

SpecStart == Init /\ [][StartNext]_vars

\* ------------------------------------------------------------------------
\* Claims on the FrameAssembler
\* ------------------------------------------------------------------------
RECURSIVE JoinParts(_, _)
\* What the frame's bitstream is: parts 1..n joined in index order
JoinParts(parts, n) ==
    IF n = 0 THEN <<>> ELSE JoinParts(parts, n - 1) \o Get(parts[n])

RunComplete(e) == e.st = "run" /\ \A i \in 1..e.total : e.parts[i] /= None

LastHeader == Get(lastPkt).header

\* C1: when the N >= 2 distinct fragments of a frame are pushed in any order,
\* each within max_age of the one before (and no more than max_frames frames
\* are being assembled), push returns None for the first N-1 of them and on the
\* N-th returns one packet with the frame's id whose payload is the fragments'
\* payloads joined in fragment_index order.
C1_PermutationAssembly ==
    (lastPkt /= None /\ LastHeader.total_fragments >= 2) =>
        LET e == exp[LastHeader.frame_id]
        IN  (e.st = "run" /\ Cardinality(seen) <= max_frames) =>
                IF RunComplete(e)
                THEN /\ ret /= None
                     /\ Get(ret).header.frame_id = LastHeader.frame_id
                     /\ Get(ret).header.total_fragments = e.total
                     /\ Get(ret).payload = JoinParts(e.parts, e.total)
                ELSE ret = None

\* C1 witness: a 3-fragment frame completed by a run that did not start with
\* fragment 0 and did not end with fragment 2
C1_Witness ==
    /\ lastPkt /= None
    /\ LastHeader.total_fragments = 3
    /\ LastHeader.fragment_index = 1
    /\ RunComplete(exp[LastHeader.frame_id])
    /\ exp[LastHeader.frame_id].first = 2
    /\ ret /= None

\* C2: a frame id is yielded as an assembled frame at most once, whatever
\* fragments of it are pushed afterwards.
C2_YieldedOnce == \A f \in FrameIds : yields[f] <= 1

\* ------------------------------------------------------------------------
\* Claims on the Host send worker
\* ------------------------------------------------------------------------
CeilDiv(a, b) == (a + b - 1) \div b

\* the header size H of the claim, and the payload room 1200 - H
ClaimH == SerializedSize(FALSE, 0)

\* C3: a frame of L >= 1 bytes whose sends all succeed leaves as exactly
\* ceil(L / (1200 - H)) datagrams, with fragment_index 0, 1, .. in that order,
\* each carrying total_fragments equal to that count, their payloads tiling
\* the bitstream from byte 0 to byte L in fragment_index order.
C3_Fragmentation ==
    /\ (dgram /= None /\ Get(dgram).res = "Ok") =>
          /\ Get(dgram).total_fragments
                 = CeilDiv(Get(dgram).frame_len, MAX_DATAGRAM_SIZE - ClaimH)
          /\ Get(dgram).fragment_index = emitted - 1
          /\ Get(dgram).off + Get(dgram).len = covered
    /\ (sw.pc = "sent" /\ sw.sent_all) =>
          /\ emitted = CeilDiv(sw.frame_len, MAX_DATAGRAM_SIZE - ClaimH)
          /\ covered = sw.frame_len

\* The same for the frames the 16-bit total_fragments can count
C3_FragmentationU16 ==
    (dgram /= None /\ Get(dgram).frame_id /= 3 /\ sw.frame_id /= 3) => C3_Fragmentation

\* C4: every datagram handed to send_datagram serializes to at most
\* MAX_DATAGRAM_SIZE bytes (and so is never refused as too large).
C4_DatagramSize ==
    dgram /= None =>
        /\ Get(dgram).size <= MAX_DATAGRAM_SIZE
        /\ Get(dgram).size = ClaimH + Get(dgram).len
        /\ Get(dgram).res /= "DatagramTooLarge"

\* C4 witness: a datagram of exactly 1200 bytes was sent, followed by more
C4_Witness ==
    /\ dgram /= None
    /\ Get(dgram).size = MAX_DATAGRAM_SIZE
    /\ Get(dgram).res = "Ok"
    /\ Get(dgram).fragment_index = 2

\* ------------------------------------------------------------------------
\* Claims on the Session state machine and the connect sequence
\* ------------------------------------------------------------------------
\* the order of the states: Paused stands beside Active
Rank(st) ==
    CASE st = "Disconnected" -> 0
      [] st = "Connecting" -> 1
      [] st = "WaitingForPeer" -> 2
      [] st = "NatTraversal" -> 3
      [] st = "Handshaking" -> 4
      [] st \in {"Active", "Paused"} -> 5
      [] st \in {"Ended", "Failed"} -> 6

Forward(a, b) ==
    \/ {a, b} = {"Active", "Paused"}
    \/ a \notin {"Ended", "Failed"} /\ Rank(a) < Rank(b)

\* C5: under any interleaving of connect(), disconnect(),
\* resolve_pending_connection() and run() on one Session, every change of
\* the state is a forward one (or Active <-> Paused), and Ended and Failed
\* are never left.
C5_ForwardOnly ==
    [][\A s \in Sessions : state'[s] /= state[s] => Forward(state[s], state'[s])]_vars

\* C6: when connect() has returned an error, the session's state is Failed.
C6_FailedOnError ==
    \A s \in Sessions :
        (call[s].pc = "returned" /\ call[s].res /= Ok) => state[s] = "Failed"

\* C7: the Host publishes each IncomingConnection{from} it takes while
\* waiting; its decision is approved exactly when the application's approval
\* arrived within the 120 s; on approval it sends Accept{from} and leaves the
\* wait loop; on a rejection or a timeout it sends Reject{from, reason} and
\* is waiting again (the sends, while the signaling relay runs).
C7_AcceptOrReject ==
    [][\A s \in Hosts :
          /\ (call[s].pc = "waiting" /\ call'[s].pc = "approving") =>
                /\ Head(down[s]) = IncomingConnection(call'[s].from_peer_id)
                /\ pending'[s] = Some(call'[s].from_peer_id)
          /\ (call[s].pc = "approving" /\ call'[s].pc = "taking") =>
                call'[s].approved = (call[s].rx = "true")
          /\ (call[s].pc = "replying" /\ call'[s].pc /= "replying" /\ sig[s] = "open") =>
                IF call[s].approved
                THEN /\ sent'[s] = Append(sent[s], Accept(call[s].from_peer_id))
                     /\ up'[s] = Append(up[s], Accept(call[s].from_peer_id))
                     /\ call'[s].pc = "offering"
                ELSE /\ sent'[s] = Append(sent[s], Reject(call[s].from_peer_id, RejectReason))
                     /\ up'[s] = Append(up[s], Reject(call[s].from_peer_id, RejectReason))
                     /\ call'[s].pc = "waiting"
          /\ (call[s].pc = "replying" /\ call[s].approved) => call'[s].pc /= "waiting"
      ]_vars

\* C7 witness: the Host rejected W's request, kept waiting, was notified of
\* V's request and, on the application's approval, sent Accept{V}
C7_Witness ==
    /\ call["H"].pc = "offering"
    /\ sent["H"] = <<Register("H"), Reject("W", RejectReason), Accept("V")>>
    /\ okd["H"] = {<<"W", FALSE>>, <<"V", TRUE>>}

HasCandidate(v) ==
    \/ call[v].remote_addr /= None
    \/ \E i \in 1..Len(down[v]) : down[v][i].type = "IceCandidate"

\* C9: with the honest server, a Host sends an IceCandidate only after its
\* Accept to the same peer, a peer whose request the application approved,
\* and is in transport accept only after sending the candidate; a Viewer is
\* in transport connect, connected or Active only if its Host's application
\* approved it, and a Viewer that was not approved has no candidate.
C9_ApprovedOnly ==
    /\ \A h \in Hosts : \A i \in 1..Len(sent[h]) :
          sent[h][i].type = "IceCandidate" =>
             /\ \E j \in 1..(i - 1) : sent[h][j] = Accept(sent[h][i].peer)
             /\ <<sent[h][i].peer, TRUE>> \in okd[h]
    /\ \A h \in Hosts :
          (call[h].pc \in {"accepting", "established", "activating"} \/ conn[h]) =>
             \E i \in 1..Len(sent[h]) :
                sent[h][i] = IceCandidateMsg(call[h].from_peer_id, Candidate(h))
    /\ \A v \in Viewers :
          (\/ call[v].pc \in {"connecting", "established", "activating"}
           \/ conn[v]
           \/ state[v] = "Active"
           \/ HasCandidate(v)) => <<v, TRUE>> \in okd[RemotePeerId(v)]

\* C9 witness: W was rejected and ended without a candidate, V was approved
\* and is Active with the Host
C9_Witness ==
    /\ okd["H"] = {<<"W", FALSE>>, <<"V", TRUE>>}
    /\ call["W"].res = Err("Connection", "Remote error")
    /\ call["W"].remote_addr = None
    /\ state["V"] = "Active" /\ conn["V"]
    /\ state["H"] = "Active" /\ conn["H"]

\* C10: in the candidate loop the Viewer goes on to transport connect only
\* with an IceCandidate whose target_peer_id is its remote_peer_id; any other
\* IceCandidate and an Error containing "queued" leave it waiting; any other
\* Error, and the closing of signaling, end connect() with a Connection error.
C10_CandidateLoop ==
    [][\A s \in Viewers :
          call[s].pc = "awaiting" =>
             /\ call'[s].pc = "connecting" =>
                   /\ down[s] /= <<>>
                   /\ Head(down[s]).type = "IceCandidate"
                   /\ Head(down[s]).peer = RemotePeerId(s)
                   /\ call'[s].remote_addr = Some(Head(down[s]).body)
             /\ (down[s] /= <<>> /\ down'[s] = Tail(down[s])) =>
                   LET m == Head(down[s]) IN
                   /\ (m.type = "IceCandidate" /\ m.peer /= RemotePeerId(s)) =>
                         call'[s] = call[s]
                   /\ (m.type = "Error" /\ Contains(m.body, "queued")) =>
                         call'[s] = call[s]
                   /\ (m.type = "Error" /\ ~Contains(m.body, "queued")) =>
                         /\ call'[s].pc = "returned"
                         /\ call'[s].res = Err("Connection", "Remote error")
             /\ (down[s] = <<>> /\ sig[s] = "closed" /\ call'[s] /= call[s]) =>
                   /\ call'[s].pc = "returned"
                   /\ call'[s].res = Err("Connection", "Signaling closed")
      ]_vars

\* C10 witness: the Viewer passed over the "queued" Error and a candidate of
\* another peer, and goes to transport connect with its Host's candidate
C10_Witness ==
    /\ call["V"].pc = "connecting"
    /\ heard["V"] = <<ErrorMsg(QueuedText), IceCandidateMsg("W", Candidate("W")),
                      IceCandidateMsg("H", Candidate("H"))>>

\* C11: a resolve_pending_connection(from, approved) call with the request
\* of peer P pending returns Connection("Mismatched peer id") if from /= P,
\* leaving P's request in the slot and the Host's oneshot untouched; if
\* from = P it returns Ok, empties the slot and the waiting Host gets
\* `approved`; with an empty slot it returns NotActive and changes nothing.
C11_ResolveCases ==
    [][\A s \in Hosts :
          rres'[s] /= rres[s] =>
             LET r == rres'[s] IN
             IF pending[s] = None
             THEN /\ r.res = Err("NotActive", "")
                  /\ pending'[s] = None
                  /\ call'[s] = call[s]
                  /\ okd'[s] = okd[s]
             ELSE IF Get(pending[s]) /= r.from_peer_id
             THEN /\ r.res = Err("Connection", "Mismatched peer id")
                  /\ pending'[s] = pending[s]
                  /\ call'[s] = call[s]
                  /\ okd'[s] = okd[s]
             ELSE /\ r.res = Ok
                  /\ pending'[s] = None
                  /\ call[s].pc = "approving" /\ call[s].rx = "waiting" =>
                        call'[s].rx = (IF r.approved THEN "true" ELSE "false")
      ]_vars

\* C11 witness: a call with W's id while V's request was pending failed and
\* left the request in place for the Host, which is still waiting for the decision
C11_Witness ==
    /\ rres["H"] = Resolved("W", TRUE, Err("Connection", "Mismatched peer id"))
    /\ pending["H"] = Some("V")
    /\ call["H"].pc = "approving"
    /\ call["H"].rx = "waiting"
    /\ okd["H"] = {<<"W", FALSE>>}

\* the step is the handler of socket s taking a message of this type from
\* its socket
Handles(s, type) ==
    /\ sock[s].pc = "recv"
    /\ up[s] /= <<>>
    /\ Head(up[s]).type = type
    /\ up'[s] = Tail(up[s])

\* the ids whose entry in peers holds the channel of socket s
Routed(s) == {id \in Sessions : peers[id] = Some(s)}

\* socket s is open and is the registered socket of the id it registered last
RegisteredAs(s, id) ==
    /\ sig[s] = "open"
    /\ sock[s].peer_id = Some(id)
    /\ peers[id] = Some(s)

\* C12: with A and B registered (on sockets a and b), the handling of B's
\* Connect{A} puts IncomingConnection{B} on A's channel and nothing on B's;
\* while B has nothing under way at the server, B's channel gets a message
\* only when another socket's message naming B is handled; and the handling
\* of A's Accept{B} puts a Connected on A's and on B's channel.
C12_Rendezvous ==
    [][\A a \in Sessions : \A b \in Sessions \ {a} :
       \A A \in Sessions : \A B \in Sessions \ {A} :
         RegisteredAs(a, A) /\ RegisteredAs(b, B) =>
            /\ Handles(b, "Connect") /\ Head(up[b]).peer = A =>
                  /\ down'[a] = Append(down[a], IncomingConnection(B))
                  /\ down'[b] = down[b]
            /\ sock[b].pc = "recv" /\ up[b] = <<>> /\ down'[b] /= down[b] /\ Routed(b) = {B} =>
                  \/ down[b] /= <<>> /\ down'[b] = Tail(down[b])
                  \/ \E t \in Sessions \ {b} :
                        /\ up[t] /= <<>>
                        /\ Handles(t, Head(up[t]).type)
                        /\ Head(up[t]).peer = B
            /\ Handles(a, "Accept") /\ Head(up[a]).peer = B =>
                  /\ \E id \in Sessions : down'[a] = Append(down[a], Connected(id))
                  /\ \E id \in Sessions : down'[b] = Append(down[b], Connected(id))
      ]_vars

\* C12 witness: H and V are registered, the server has handled H's
\* Accept{V}, and each of them has a Connected to read
C12_Witness ==
    /\ RegisteredAs("H", "H")
    /\ RegisteredAs("V", "V")
    /\ <<"Accept", "H", "V">> \in relayed
    /\ down["H"] = <<Connected("V")>>
    /\ down["V"] = <<Connected("H")>>

\* C13: the handler of a registered B that takes Connect{A} while A is not
\* in peers goes on to append B to pending_connections[A] and to put
\* Error{"Peer is offline, request queued"} on B's channel; the handler that
\* takes Register{A} puts Registered{A} on its channel, then one
\* IncomingConnection per queued requester in the order of the queue, and
\* leaves pending_connections[A] empty.
C13_OfflineQueue ==
    [][\A s \in Sessions :
         /\ Handles(s, "Connect") /\ sock[s].peer_id /= None /\ ~Online(Head(up[s]).peer) =>
               /\ sock'[s].pc = "queueing"
               /\ sock'[s].target = Head(up[s]).peer
         /\ sock[s].pc = "queueing" /\ sock'[s] /= sock[s] =>
               /\ pending_connections' =
                     [pending_connections EXCEPT
                        ![sock[s].target] = Append(@, Get(sock[s].peer_id))]
               /\ sig[s] = "open" =>
                     down'[s] = Append(down[s], ErrorMsg(<<"Peer", "is", "offline,", "request", "queued">>))
         /\ Handles(s, "Register") =>
               /\ sock'[s].pc = "confirming"
               /\ sock'[s].peer_id = Some(Head(up[s]).peer)
         /\ sock[s].pc = "confirming" /\ sock'[s] /= sock[s] =>
               /\ sock'[s].pc = "draining"
               /\ sig[s] = "open" =>
                     down'[s] = Append(down[s], Registered(Get(sock[s].peer_id)))
         /\ sock[s].pc = "draining" /\ sock'[s] /= sock[s] =>
               LET id == Get(sock[s].peer_id)
                   q == pending_connections[id]
               IN  /\ sig[s] = "open" =>
                         down'[s] = down[s] \o [i \in 1..Len(q) |-> IncomingConnection(q[i])]
                   /\ pending_connections'[id] = <<>>
      ]_vars

\* C13 witness: V and then W asked for H while it was offline; H has now
\* registered and been told of both, in that order, and its queue is empty
C13_Witness ==
    /\ RegisteredAs("H", "H")
    /\ sock["H"].pc = "recv"
    /\ down["H"] = <<Registered("H"), IncomingConnection("V"), IncomingConnection("W")>>
    /\ pending_connections["H"] = <<>>

\* the id socket s registered is now registered by another socket
Superseded(s) ==
    /\ sock[s].peer_id /= None
    /\ Online(Get(sock[s].peer_id))
    /\ TxOf(Get(sock[s].peer_id)) /= s

\* C14: a Register makes the registering socket the one registration of
\* its PeerId, and the channel of a socket whose PeerId another socket has
\* registered since is closed: nothing more is put on it.
C14_OneRegistration ==
    [][\A s \in Sessions :
         /\ Handles(s, "Register") => peers'[Head(up[s]).peer] = Some(s)
         /\ Superseded(s) => Len(down'[s]) <= Len(down[s])
      ]_vars

\* C15: when the handler of a socket registered as X takes Accept{from=Y},
\* Connected{peer_id=X} is put on the channel registered for Y and on the
\* acceptor's own channel.
C15_ConnectedAcceptor ==
    [][\A x \in Sessions :
         /\ Handles(x, "Accept")
         /\ sock[x].peer_id /= None
         /\ sig[x] = "open"
         /\ Online(Head(up[x]).peer)
         /\ TxOf(Head(up[x]).peer) /= x
         /\ sig[TxOf(Head(up[x]).peer)] = "open"
         => LET X == Get(sock[x].peer_id)
                y == TxOf(Head(up[x]).peer)
            IN  /\ down'[y] = Append(down[y], Connected(X))
                /\ down'[x] = Append(down[x], Connected(X))
      ]_vars

\* the last message of a channel that has just grown
Arrived(t) == down'[t][Len(down'[t])]

\* C16: the handler of a socket registered as X that takes
\* IceCandidate{target, candidate} puts IceCandidate{target_peer_id = X,
\* candidate} on the channel registered for target and on no other; the
\* handler of a socket that has not registered puts nothing anywhere; and no
\* other step of the server puts an IceCandidate on a channel.
C16_CandidateRelay ==
    [][/\ \A s \in Sessions :
            Handles(s, "IceCandidate") =>
               LET m == Head(up[s]) IN
               IF sock[s].peer_id /= None /\ peers[m.peer] /= None
                  /\ sig[Get(peers[m.peer])] = "open"
               THEN down' = [down EXCEPT ![Get(peers[m.peer])] =
                                Append(@, [type |-> "IceCandidate",
                                           peer |-> Get(sock[s].peer_id),
                                           body |-> m.body])]
               ELSE down' = down
       /\ \A t \in Sessions :
            Len(down'[t]) > Len(down[t]) /\ Arrived(t).type = "IceCandidate" =>
               \E s \in Sessions :
                  /\ Handles(s, "IceCandidate")
                  /\ sock[s].peer_id /= None
                  /\ peers[Head(up[s]).peer] = Some(t)
      ]_vars

\* C16 witness: W has registered as H after the socket H did, V is
\* registered, and V's candidate for H is on W's channel, naming V
C16_Witness ==
    /\ sock["H"].peer_id = Some("H")
    /\ RegisteredAs("W", "H")
    /\ RegisteredAs("V", "V")
    /\ down["W"] = <<IceCandidateMsg("V", Candidate("V"))>>
    /\ down["H"] = <<>>

\* the step is a call of push (that changed something)
PushStep ==
    /\ lastPkt' /= None
    /\ asmVars' /= asmVars
    /\ ~Tick

\* the assembly of frame f holds nothing but what the packet brought
OnlyFrom(assembly, packet) ==
    /\ assembly.received <= 1
    /\ \A i \in 1..Len(assembly.fragments) :
          assembly.fragments[i] \in {None, Some(packet.payload)}

\* C17: once the last_update of a stored assembly is older than max_age,
\* the next push, whatever its packet, leaves nothing of that assembly in
\* the map and yields nothing for its frame.
C17_StaleDropped ==
    [][\A f \in FrameIds :
         /\ frames[f] /= None
         /\ Get(frames[f]).last_update > max_age
         /\ PushStep
         => /\ frames'[f] = None \/ OnlyFrom(Get(frames'[f]), Get(lastPkt'))
            /\ ret' = None \/ Get(ret').header.frame_id /= f
      ]_vars

\* C17, for the pushes that reach evict_old: a push of a fragment of a
\* multi-fragment frame leaves nothing of an assembly older than max_age
C17_StaleDroppedByFragment ==
    [][\A f \in FrameIds :
         /\ frames[f] /= None
         /\ Get(frames[f]).last_update > max_age
         /\ PushStep
         /\ Get(lastPkt').header.total_fragments > 1
         => /\ frames'[f] = None \/ OnlyFrom(Get(frames'[f]), Get(lastPkt'))
            /\ ret' = None \/ Get(ret').header.frame_id /= f
      ]_vars

\* the pushed packet is a fragment of a stored assembly with the same
\* total_fragments, for a slot that is filled
Duplicate(packet) ==
    LET f == packet.header.frame_id
        idx == packet.header.fragment_index
        total == packet.header.total_fragments
    IN  /\ total > 1
        /\ frames[f] /= None
        /\ Len(Get(frames[f]).fragments) = total
        /\ idx < total
        /\ Get(frames[f]).fragments[idx + 1] /= None

\* the push yields nothing and the assembly of frame f keeps its payloads
\* and its count
Untouched(f) ==
    /\ ret' = None
    /\ frames'[f] /= None
    /\ Get(frames'[f]).fragments = Get(frames[f]).fragments
    /\ Get(frames'[f]).received = Get(frames[f]).received

\* evict_old keeps the assembly of frame f: it is not older than max_age,
\* and as many other fresh assemblies are older than it as the size cut removes
Kept(f) ==
    LET fresh == {g \in FrameIds : frames[g] /= None /\ Get(frames[g]).last_update <= max_age}
        cut == IF Cardinality(fresh) > max_frames THEN Cardinality(fresh) - max_frames ELSE 0
        older == {g \in fresh : Get(frames[g]).last_update > Get(frames[f]).last_update}
    IN  /\ f \in fresh
        /\ Cardinality(older) >= cut

\* C18 as stated: a push of a fragment whose slot is already filled in a
\* stored assembly with the same total_fragments yields nothing and leaves
\* the assembly's payloads and received count as they were.
C18_DuplicateIdempotent ==
    [][PushStep /\ Duplicate(Get(lastPkt')) => Untouched(Get(lastPkt').header.frame_id)]_vars

\* C18 amended: the same, for an assembly that the push's evict_old keeps.
C18_DuplicateIdempotentKept ==
    [][PushStep /\ Duplicate(Get(lastPkt')) /\ Kept(Get(lastPkt').header.frame_id)
          => Untouched(Get(lastPkt').header.frame_id)]_vars

\* C18 witness: fragment 1 of 3 of frame 1 came again while fragments 0 and 1
\* were stored; nothing was yielded and both are still there, counted twice
C18_Witness ==
    /\ slot = "filled"
    /\ lastPkt = Some([header |-> [frame_id |-> 1, fragment_index |-> 1, total_fragments |-> 3],
                        payload |-> <<1, 3, 1>>])
    /\ ret = None
    /\ frames[1] /= None
    /\ Get(frames[1]).received = 2
    /\ Get(frames[1]).fragments = <<Some(<<1, 3, 0>>), Some(<<1, 3, 1>>), None>>

\* C19: once disconnect() has cleared running, each worker loop (capture
\* thread, Host send loop, Viewer receive loop, input loop) ends, whether or
\* not another datagram, encoded frame or input event comes.
C19_WorkersStop ==
    /\ ~running["H"] ~> (capture = "ended" /\ sw.pc = "exited")
    /\ ~running["V"] ~> (receive = "ended" /\ input = "ended")

\* C20: a send_datagram call on a transport without a connection returns
\* NotConnected, a call with more than 1200 bytes on a connected transport
\* returns DatagramTooLarge, and in both cases nothing is handed to the
\* connection.
C20_SendDatagramErrors ==
    [][dgram' /= dgram /\ dgram' /= None =>
         LET d == Get(dgram') IN
         /\ ~conn[d.on] => d.res = "NotConnected" /\ ~d.handed
         /\ conn[d.on] /\ d.size > 1200 => d.res = "DatagramTooLarge" /\ ~d.handed
         /\ conn[d.on] /\ d.size <= 1200 => d.res \in {"Ok", "Send"} /\ d.handed
      ]_vars

\* C20 witness: 1201 bytes were refused on H's connected transport, while
\* V's transport has no connection
C20_Witness ==
    /\ conn["H"]
    /\ ~conn["V"]
    /\ dgram /= None
    /\ Get(dgram).on = "H"
    /\ Get(dgram).size = 1201
    /\ Get(dgram).res = "DatagramTooLarge"
    /\ ~Get(dgram).handed

\* ------------------------------------------------------------------------
\* Claims on the CongestionController
\* ------------------------------------------------------------------------
\* this step is a record_rtt call
RecordStep == rtt_calls' = rtt_calls + 1

\* this step is a record_rtt call made 500 ms or more after the last
\* adjustment (or the creation): adjust_params goes past its early return
Adjusting == RecordStep /\ cc.last_adjustment + last_call'.wait >= AdjustEvery

\* this step is a record_rtt call made less than 500 ms after the last
\* adjustment (or the creation)
TooSoon == RecordStep /\ cc.last_adjustment + last_call'.wait < AdjustEvery

Bitrate(c) == c.current_params.bitrate_kbps

\* the samples the controller holds go back 500 ms or more, each of them is
\* above the threshold (so is their mean at every call of that time), and so
\* is the smoothed RTT
SustainedHigh(c) ==
    /\ c.rtt_samples /= <<>>
    /\ Head(c.rtt_samples).age >= AdjustEvery
    /\ \A i \in 1..Len(c.rtt_samples) : c.rtt_samples[i].rtt > c.config.rtt_threshold_ms * Millis
    /\ c.smoothed_rtt > c.config.rtt_threshold_ms * Millis

\* the same below the target
SustainedLow(c) ==
    /\ c.rtt_samples /= <<>>
    /\ Head(c.rtt_samples).age >= AdjustEvery
    /\ \A i \in 1..Len(c.rtt_samples) : c.rtt_samples[i].rtt < c.config.target_rtt_ms * Millis
    /\ c.smoothed_rtt < c.config.target_rtt_ms * Millis

\* C21: while the RTT samples have been above rtt_threshold_ms for 500 ms or
\* more, every adjustment lowers bitrate_kbps strictly until it is
\* min_bitrate_kbps, and then leaves it at min_bitrate_kbps.
C21_HighRttReduces ==
    [][(Adjusting /\ SustainedHigh(cc'))
          => /\ Bitrate(cc) > cc.config.min_bitrate_kbps => Bitrate(cc') < Bitrate(cc)
             /\ Bitrate(cc) = cc.config.min_bitrate_kbps => Bitrate(cc') = Bitrate(cc)]_vars

\* What holds of the reduction: an adjustment that finds the smoothed RTT, in
\* whole milliseconds, above the threshold lowers the bitrate strictly until
\* it is min_bitrate_kbps
C21_ReducesAboveThresholdMs ==
    [][(Adjusting /\ RttMs(cc') > cc.config.rtt_threshold_ms)
          => /\ Bitrate(cc) > cc.config.min_bitrate_kbps => Bitrate(cc') < Bitrate(cc)
             /\ Bitrate(cc) = cc.config.min_bitrate_kbps => Bitrate(cc') = Bitrate(cc)]_vars

\* C22: while the RTT samples have been below target_rtt_ms for 500 ms or
\* more, every adjustment of a bitrate below max_bitrate_kbps raises
\* bitrate_kbps strictly: the truncation never leaves it where it was.
C22_LowRttIncreases ==
    [][(Adjusting /\ SustainedLow(cc') /\ Bitrate(cc) < cc.config.max_bitrate_kbps)
          => Bitrate(cc') > Bitrate(cc)]_vars

\* What holds of the increase: from a bitrate of 100 / increase_rate kbps or
\* more (20 kbps with the default rate) the adjustment raises it strictly
C22_IncreasesFromTwenty ==
    [][(Adjusting /\ SustainedLow(cc') /\ Bitrate(cc) < cc.config.max_bitrate_kbps
           /\ Bitrate(cc) * cc.config.increase_rate >= 100)
          => Bitrate(cc') > Bitrate(cc)]_vars

\* min_bitrate <= initial_bitrate <= max_bitrate and min_fps <= 30 <= max_fps
ConfigOrdered(config) ==
    /\ config.min_bitrate_kbps <= config.initial_bitrate_kbps
    /\ config.initial_bitrate_kbps <= config.max_bitrate_kbps
    /\ config.min_fps <= 30
    /\ 30 <= config.max_fps

ParamsInRange(c) ==
    /\ c.config.min_bitrate_kbps <= Bitrate(c)
    /\ Bitrate(c) <= c.config.max_bitrate_kbps
    /\ c.config.min_fps <= c.current_params.fps
    /\ c.current_params.fps <= c.config.max_fps
    /\ 30 <= c.current_params.quality
    /\ c.current_params.quality <= 100

C30_AdjustCadence ==
    [][TooSoon
          => /\ cc'.current_params = cc.current_params
             /\ cc'.rtt_samples /= <<>>
             /\ cc'.rtt_samples[Len(cc'.rtt_samples)] = [rtt |-> last_call'.arg, age |-> 0]
             /\ last_call'.arg > cc.smoothed_rtt + Millis
                    => cc'.smoothed_rtt > cc.smoothed_rtt /\ cc'.smoothed_rtt < last_call'.arg
             /\ last_call'.arg + Millis < cc.smoothed_rtt
                    => cc'.smoothed_rtt < cc.smoothed_rtt /\ cc'.smoothed_rtt > last_call'.arg]_vars

\* the parameters were adjusted by one call, and a call 100 ms later that
\* found the smoothed RTT above the threshold was skipped
C30_Witness ==
    /\ last_call.op = "record_rtt"
    /\ last_call.did = "skipped"
    /\ cc.last_adjustment = 100
    /\ RttMs(cc) > cc.config.rtt_threshold_ms
    /\ Bitrate(cc) /= cc.config.initial_bitrate_kbps
    /\ Len(cc.rtt_samples) >= 2

\* ------------------------------------------------------------------------
\* Claims on the CryptoSession
\* ------------------------------------------------------------------------
\* seq is the beginning of whole
IsPrefix(seq, whole) ==
    /\ Len(seq) <= Len(whole)
    /\ \A i \in 1..Len(seq) : seq[i] = whole[i]

\* C24: between an Initiator and a Responder completed from each other's
\* public keys, in both directions, a ciphertext decrypted in the order of
\* encryption is opened and gives the plaintext that was encrypted: what a
\* side has decrypted is the beginning of what its peer encrypted, the
\* decrypt of the oldest ciphertext in flight never fails, and for every k
\* the sender's k-th send nonce is the receiver's k-th receive nonce.
C24_RoundTrip ==
    \A side \in Directions :
        /\ IsPrefix(opened[side], plain[PeerOf(side)])
        /\ crypto[side].recv_counter = Len(opened[side])
        /\ crypto[side].send_counter = Len(plain[side])
        /\ Len(opened[side]) + Len(wire[side]) = Len(plain[PeerOf(side)])
        /\ (last_decrypt.side = side /\ last_decrypt.index = 1) => last_decrypt.res /= None
        /\ \A k \in 0..MaxMessages :
              GenerateNonce(crypto[PeerOf(side)], k, TRUE) = GenerateNonce(crypto[side], k, FALSE)

\* both sides have encrypted MaxMessages messages, not all the same, and
\* both have decrypted them all
C24_Witness ==
    \A side \in Directions :
        /\ Len(opened[side]) = MaxMessages
        /\ opened[side] = plain[PeerOf(side)]
        /\ \E i, j \in 1..MaxMessages : opened[side][i] /= opened[side][j]

\* ------------------------------------------------------------------------
\* Claims on the stored assemblies
\* ------------------------------------------------------------------------
\* the slots of the assembly that hold a fragment
Filled(entry) == {i \in 1..Len(entry.fragments) : entry.fragments[i] /= None}

\* C25: after any sequence of pushes every stored FrameAssembly has received
\* equal to the number of its filled slots and below total_fragments, and the
\* push that returned an assembled frame has removed that frame's assembly.
C25_ReceivedCount ==
    /\ \A f \in FrameIds :
          frames[f] /= None
             => /\ Get(frames[f]).received = Cardinality(Filled(Get(frames[f])))
                /\ Get(frames[f]).received < Get(frames[f]).header.total_fragments
                /\ Len(Get(frames[f]).fragments) = Get(frames[f]).header.total_fragments
    /\ (ret /= None /\ slot /= "single") => frames[Get(ret).header.frame_id] = None

\* frame 1 was assembled and returned before, and is being assembled again
\* with two of its three fragments stored
C25_Witness ==
    /\ yields[1] >= 1
    /\ frames[1] /= None
    /\ Get(frames[1]).received = 2
    /\ Get(frames[1]).header.total_fragments = 3

\* every payload the assembly holds came with this frame id, declared the
\* assembly's total_fragments, and sits in the slot of its fragment_index
Unmixed(f, fragments) ==
    \A i \in 1..Len(fragments) :
        fragments[i] /= None => Get(fragments[i]) = <<f, Len(fragments), i - 1>>

\* C26: a fragment pushed for a frame whose stored assembly has another
\* total_fragments leaves an assembly with the packet's header and size that
\* holds that fragment alone (nothing, if its index is out of range); no
\* stored assembly and no returned frame holds payloads of fragments that
\* declared different total_fragments, or a payload outside its slot.
C26_ResetOnResize ==
    /\ [][(PushStep /\ reset')
             => LET packet == Get(lastPkt')
                    entry == Get(frames'[packet.header.frame_id])
                IN  /\ frames'[packet.header.frame_id] /= None
                    /\ entry.header = packet.header
                    /\ Len(entry.fragments) = packet.header.total_fragments
                    /\ Filled(entry) = IF packet.header.fragment_index < packet.header.total_fragments
                                       THEN {packet.header.fragment_index + 1} ELSE {}
                    /\ entry.received = Cardinality(Filled(entry))
                    /\ ret' = None]_vars
    /\ [](\A f \in FrameIds : frames[f] /= None => Unmixed(f, Get(frames[f]).fragments))
    /\ []((ret /= None /\ slot /= "single")
             => LET frame == Get(ret)
                    total == frame.header.total_fragments
                IN  frame.payload = JoinParts(
                        [i \in 1..total |-> Some(<<frame.header.frame_id, total, i - 1>>)], total))

\* a fragment of frame 1 declared as 3 fragments has just replaced an
\* assembly of frame 1 that held a fragment declared as 2 fragments
C26_Witness ==
    /\ lastPkt /= None
    /\ Get(lastPkt).header.total_fragments = 3
    /\ reset
    /\ frames[1] /= None
    /\ Get(frames[1]).header.total_fragments = 3
    /\ Get(frames[1]).received = 1
    /\ slot = "empty"
    /\ yields[1] = 0

\* ------------------------------------------------------------------------
\* Claims on the datagram receiver
\* ------------------------------------------------------------------------
\* C27: the background receiver never waits on the full datagram channel:
\* whenever the task holds a datagram it has read, its send can complete at
\* once (by queueing the datagram or by giving it up), whatever the channel
\* holds, and the task goes back to reading.
C27_NeverBlocksOnFull ==
    receiver.pc = "send" => ENABLED ReceiverSend

\* ------------------------------------------------------------------------
\* Claims on the broker's failed sends
\* ------------------------------------------------------------------------
\* the handler of socket s takes a Connect, Accept, Reject or IceCandidate
\* from its socket and sends to the registered peer the message names, whose
\* socket's handler has ended (forward_task aborted, msg_rx dropped): the
\* send on that peer's channel fails
SendFails(s) ==
    /\ sock[s].pc = "recv"
    /\ up[s] /= <<>>
    /\ up'[s] = Tail(up[s])
    /\ sock[s].peer_id /= None
    /\ Head(up[s]).type \in {"Connect", "Accept", "Reject", "IceCandidate"}
    /\ peers[Head(up[s]).peer] /= None
    /\ sock[Get(peers[Head(up[s]).peer])].pc = "closed"

\* C28: when a send on a peer's outbound channel fails while the broker
\* handles a socket's message, that socket's handling loop ends and its
\* registration is removed.
C28_SendFailureCloses ==
    [][\A s \in Sessions :
          SendFails(s)
             => /\ sock'[s].pc = "closed"
                /\ peers'[Get(sock[s].peer_id)] /= Some(s)]_vars

\* ------------------------------------------------------------------------
\* Claims on the encoded-frame channel
\* ------------------------------------------------------------------------
\* C29: the frame channel never holds more than its capacity; while it is
\* full and the send worker alive, the capture thread's blocking_send does
\* not return; when it returns the frame is queued behind the frames already
\* there, unless the send worker has gone and the channel is closed; and the
\* send worker takes the frames oldest first, so that every frame that was
\* queued reaches it in the order of encoding.
C29_FrameChannel ==
    /\ [](Len(frame_ch.queue) <= FrameCap)
    /\ []((capture = "send" /\ sw.pc /= "exited" /\ Len(frame_ch.queue) = FrameCap)
             => ~ENABLED CaptureSend)
    /\ [][(capture = "send" /\ capture' /= "send")
             => \/ frame_ch'.queue = Append(frame_ch.queue, Get(encoded))
                \/ sw.pc = "exited" /\ capture' = "ended"]_vars
    /\ [][frame_ch'.queue /= frame_ch.queue
             => \/ capture = "send" /\ frame_ch'.queue = Append(frame_ch.queue, Get(encoded))
                \/ /\ frame_ch.queue /= <<>>
                   /\ frame_ch'.queue = Tail(frame_ch.queue)
                   /\ sw'.pc = "chunks"
                   /\ sw'.frame_id = Head(frame_ch.queue).sequence
                   /\ sw'.frame_len = Head(frame_ch.queue).len]_vars

\* the channel is full of frames that differ, the send worker is busy with
\* the fragments of a frame, and the capture thread waits with the next one
C29_Witness ==
    /\ Len(frame_ch.queue) = FrameCap
    /\ frame_ch.queue[1] /= frame_ch.queue[FrameCap]
    /\ capture = "send"
    /\ encoded /= None
    /\ sw.pc = "chunks"
    /\ running["H"]

\* ------------------------------------------------------------------------
\* C31: after every record_rtt call the ring of RTT samples holds at most
\* 100 samples and no sample older than 2 seconds, at any rate of calls
C31_RingBounded ==
    /\ Len(cc.rtt_samples) <= RingCapacity
    /\ \A i \in 1..Len(cc.rtt_samples) : cc.rtt_samples[i].age <= Window

\* the part of C31 the code keeps: no sample of the ring is older than 2 s
C31_WindowKept == \A i \in 1..Len(cc.rtt_samples) : cc.rtt_samples[i].age <= Window

\* ------------------------------------------------------------------------
Sending == {c \in Callers : send_input[c].pc = "send"}

\* C32: under any interleaving of concurrent send_input calls on a Viewer
\* session the packets enter the input channel in strictly increasing sequence
\* order starting at 0 and no sequence number is given to two packets; a call
\* on a session without an input channel returns NotActive and enqueues nothing
C32_InputOrder ==
    /\ [](/\ \A i, j \in 1..Len(enqueued) : i < j => enqueued[i].sequence < enqueued[j].sequence
          /\ enqueued /= <<>> => enqueued[1].sequence = 0
          /\ \A c \in Sending :
                /\ \A i \in 1..Len(enqueued) : enqueued[i].sequence /= send_input[c].sequence
                /\ \A d \in Sending : d /= c => send_input[d].sequence /= send_input[c].sequence)
    /\ [][\A c \in Callers :
            (send_input[c].pc = "locked" /\ send_input'[c].pc /= "locked") =>
                IF input_tx.tx
                THEN send_input'[c].pc = "send"
                ELSE /\ send_input'[c].res = Some(Err("NotActive", ""))
                     /\ UNCHANGED <<input_ch, enqueued, input_sequence>>]_vars

\* both threads have sent, and a call before run_viewer was turned away
C32_Witness ==
    /\ Len(enqueued) = MaxInputs
    /\ \E i, j \in 1..Len(enqueued) : enqueued[i].event /= enqueued[j].event
    /\ \E c \in Callers : send_input[c].res = Some(Ok)

C32_WitnessNotActive ==
    \E c \in Callers : send_input[c].res = Some(Err("NotActive", "")) /\ enqueued = <<>>

\* ------------------------------------------------------------------------
\* C33: under any interleaving of a Host's Register with another peer's
\* Connect to that Host at the server, every IncomingConnection the Host's
\* connect() takes from its channel is surfaced: it becomes the published
\* pending connection, also when it arrived before Registered
C33_IncomingSurfaced ==
    [][\A s \in Hosts :
          (/\ down[s] /= <<>>
           /\ down'[s] = Tail(down[s])
           /\ Head(down[s]).type = "IncomingConnection") =>
              pending'[s] = Some(Head(down[s]).peer)]_vars

\* ------------------------------------------------------------------------
\* C34: under any interleaving of B's Connect to A with A's Register in the
\* two socket handlers the request is not stranded: once the Register of the
\* socket that holds A is fully processed and no Connect is in progress,
\* pending_connections[A] holds no entry
C34_NoStrandedRequest ==
    \A a \in Sessions :
        (/\ Online(a)
         /\ sock[TxOf(a)].pc = "recv"
         /\ \A s \in Sessions : sock[s].pc /= "queueing") =>
            pending_connections[a] = <<>>

\* ------------------------------------------------------------------------
\* C35: a peer id stays routable while the socket that registered it last is
\* open: the cleanup of an older socket that had registered the same id does
\* not remove the newer registration from peers
C35_NewerRegistrationKept ==
    [][\A s \in Sessions :
          (sock[s].pc = "recv" /\ sock'[s].pc = "closed") =>
              \A id \in Sessions :
                  (Online(id) /\ TxOf(id) /= s) => peers'[id] = peers[id]]_vars

\* C39: after a socket has closed, peers holds no entry whose channel belongs
\* to that socket, also when the socket registered more than one peer id, so
\* that a Connect to such an id is queued and not forwarded to a dead channel
C39_NoDeadChannel ==
    \A s \in Sessions :
        sock[s].pc = "closed" => \A id \in Sessions : peers[id] /= Some(s)

\* ------------------------------------------------------------------------
\* C36: whenever resolve_pending_connection(from, approved) returns Ok the
\* waiting Host acts on that decision, under any interleaving with its 120 s
\* approval timeout: after an Ok for approved = true the Host answers the
\* request with Accept{from}, never with Reject
C36_ApprovalHonoured ==
    \A s \in Hosts :
        (call[s].pc = "replying" /\ <<call[s].from_peer_id, TRUE>> \in okd[s]) =>
            Reply(call[s].from_peer_id, call[s].approved) = Accept(call[s].from_peer_id)

\* ------------------------------------------------------------------------
\* C37: in every reachable state, under any interleaving of the last steps
\* of connect() with disconnect(), running = true implies state = Active
C37_RunningImpliesActive ==
    \A s \in Sessions : running[s] => state[s] = "Active"

\* ------------------------------------------------------------------------
\* C38: when start_session of a Viewer fails with ConnectionFailed the
\* session registry is left as it was before the call: no session for that
\* peer stays registered, and a later start_session for the peer is not
\* rejected with SessionExists
C38_FailedStartLeavesNoSession ==
    \A s \in Viewers :
        (cmd[s].pc = "returned" /\ cmd[s].res = Some(Err("ConnectionFailed", ""))) =>
            /\ sessions[s] = cmd[s].before
            /\ RemotePeerId(s) \notin sessions[s]

\* ------------------------------------------------------------------------
\* what the age cut of the last push's evict_old kept, and what its size cut
\* then removed
LastFresh == RetainFresh(evicted.before)
RemovedForSize == Stored(LastFresh) \ Stored(evicted.after)

\* C40: after any sequence of pushes the assembler stores at most
\* max_frames + 1 partial assemblies, and at most max_frames right after
\* evict_old; when entries are removed for size, they are those with the
\* oldest last_update
C40_EvictionBounds ==
    /\ Cardinality(Stored(assembler)) <= max_frames + 1
    /\ Cardinality(Stored(evicted.after)) <= max_frames
    /\ Cardinality(Stored(evicted.after)) = Min(Cardinality(Stored(LastFresh)), max_frames)
    /\ \A r \in RemovedForSize : \A k \in Stored(evicted.after) :
           Get(LastFresh[r]).last_update >= Get(LastFresh[k]).last_update

\* a push found more than max_frames fresh assemblies of different ages, cut
\* the oldest, and left max_frames + 1 stored
C40_Witness ==
    /\ Cardinality(Stored(assembler)) = max_frames + 1
    /\ RemovedForSize /= {}
    /\ \E r \in RemovedForSize : \E k \in Stored(evicted.after) :
           Get(LastFresh[r]).last_update > Get(LastFresh[k]).last_update

====
